---- MODULE Spec2Model ----
(***************************************************************************)
(* Request/response core of the slumber terminal HTTP client.              *)
(*                                                                         *)
(*   - request lifecycle state (src/tui/view/state.rs: RequestState)       *)
(*   - build overrides, request records, response records, exchanges       *)
(*     (crates/core/src/http/models.rs)                                    *)
(*   - persisted form of the records (src/http/record.rs: serde_* modules) *)
(*                                                                         *)
(* Each group of operations has its own specification; the variables of    *)
(* the other groups stay at their idle value in it.                        *)
(***************************************************************************)
EXTENDS Integers, Sequences, FiniteSets, TLC

VARIABLES
    \* ---- request lifecycle (specification Spec) ----
    slots,      \* the view's request state, one per recipe
    tasks,      \* one build-and-send task per request id
    nextId,     \* the number of the next launch
    now,        \* the clock read by Utc::now()
    observed,   \* per request id, the kinds of state its slot has shown
    issued,     \* the request ids generated so far, in order
    calls,      \* per request id, how often its record was made, its
                \* ticket was sent and its body was prettified
    \* ---- build overrides (specification SpecOverrides) ----
    overrides,  \* a BuildFieldOverrides: index -> BuildFieldOverride
    lookup,     \* the last call of BuildFieldOverrides::get and its result
    \* ---- request records (specification SpecRequestRecord) ----
    built,      \* the last call of RequestRecord::new and its result
    stored,     \* the persisted form of the record
    loaded,     \* what deserializing the persisted form gave
    \* ---- response records (specification SpecResponseRecord) ----
    received,   \* a response record, once the transport has answered
    persisted,  \* the persisted form of the response record
    restored,   \* what deserializing the persisted response record gave
    \* ---- accessors of the records (specification SpecAccessors) ----
    queried,    \* the last accessor call: its input and its result
    \* ---- text window (specification SpecTextWindow) ----
    window,     \* a TextWindow: offsets, text size and window size
    lastEvent,  \* the last draw or update of the window
    \* ---- state cell (specification SpecStateCell) ----
    cell,       \* a StateCell: nothing, or a key and a value
    inits,      \* how often an init closure has run
    lastCall,   \* the last call on the cell and what it returned
    borrows,    \* the references into the cell that are still held
    \* ---- stateful select (specification SpecStatefulSelect) ----
    select,     \* a StatefulSelect, once made
    selectCalls, \* the latest calls of next and previous, oldest first
    \* ---- stateful list (specification SpecStatefulList) ----
    list,       \* a StatefulList, once made
    listCall,   \* the last call on the list
    \* ---- stored records read back (specification SpecStoredData) ----
    decoded     \* the last deserialization: its input and its result

lifecycleVars == <<slots, tasks, nextId, now, observed, issued, calls>>
overrideVars == <<overrides, lookup>>
requestVars == <<built, stored, loaded>>
responseVars == <<received, persisted, restored>>
accessorVars == <<queried>>
textWindowVars == <<window, lastEvent>>
stateCellVars == <<cell, inits, lastCall, borrows>>
selectVars == <<select, selectCalls>>
listVars == <<list, listCall>>
decodeVars == <<decoded>>

vars == <<slots, tasks, nextId, now, observed, issued, calls, overrides, lookup,
          built, stored, loaded, received, persisted, restored, queried,
          window, lastEvent, cell, inits, lastCall, borrows,
          select, selectCalls, list, listCall, decoded>>

\* what the operations of one group leave alone
viewVars ==
    <<textWindowVars, stateCellVars, selectVars, listVars, decodeVars>>
notLifecycleVars ==
    <<overrideVars, requestVars, responseVars, accessorVars, viewVars>>
notOverrideVars ==
    <<lifecycleVars, requestVars, responseVars, accessorVars, viewVars>>
notRequestVars ==
    <<lifecycleVars, overrideVars, responseVars, accessorVars, viewVars>>
notResponseVars ==
    <<lifecycleVars, overrideVars, requestVars, accessorVars, viewVars>>
notAccessorVars ==
    <<lifecycleVars, overrideVars, requestVars, responseVars, viewVars>>
recordVars ==
    <<lifecycleVars, overrideVars, requestVars, responseVars, accessorVars>>
notTextWindowVars ==
    <<recordVars, stateCellVars, selectVars, listVars, decodeVars>>
notStateCellVars ==
    <<recordVars, textWindowVars, selectVars, listVars, decodeVars>>
notSelectVars ==
    <<recordVars, textWindowVars, stateCellVars, listVars, decodeVars>>
notListVars ==
    <<recordVars, textWindowVars, stateCellVars, selectVars, decodeVars>>
notDecodeVars ==
    <<recordVars, textWindowVars, stateCellVars, selectVars, listVars>>

-----------------------------------------------------------------------------
(* Bounds of the model *)

\* number of requests launched in one behaviour
MaxRequests == 2
\* last instant of the clock
MaxTime == 1
\* largest field index of an override map
MaxIndex == 2
\* longest request body
MaxBodyLen == 2
\* largest ceiling for retained bodies
MaxCeiling == 2
\* most header values of a transport request
MaxHeaders == 2
\* parameters of a Content-Disposition header
MaxParams == 2
\* lines of a text and columns of its first line
MaxTextSize == 3
\* rows and columns of the area a text window is drawn in
MaxAreaSize == 2
\* runs of init closures of a state cell
MaxInits == 5
\* changes of the value of a state cell through get_mut
MaxEdits == 2
\* values of a type a StatefulSelect cycles through
MaxValues == 4
\* items of a StatefulList
MaxItems == 5

-----------------------------------------------------------------------------
(* Option<T> *)

None == [some |-> FALSE]
Some(v) == [some |-> TRUE, val |-> v]

-----------------------------------------------------------------------------
(* Small value domains *)

RequestIds == 1..MaxRequests
Recipes == {"r1", "r2"}
Profiles == {None, Some("p1")}

\* byte strings are sequences of byte values; 255 never occurs in UTF-8
BytesJson == <<123, 125>>
BytesBinary == <<255>>

-----------------------------------------------------------------------------
(* Identifiers and seeds: crates/core/src/http/models.rs *)

\* mutant of RequestId::new: the generator returns the same identifier again
RequestId_new_Repeated(uuid) == 1

\* RequestId::new: Self(Uuid::new_v4()), with `uuid` the value that the
\* random generator drew; nothing is compared with the identifiers given out
\* before
RequestId_new(uuid) == uuid

\* BuildOptions::default (the overrides are exercised in SpecOverrides)
BuildOptions_default == [headers |-> << >>, query_parameters |-> << >>,
                         form_fields |-> << >>]

\* Uuid::new_v4 (crate uuid): the value of the k-th draw of a behaviour. The
\* draws are 122 random bits each; they are taken to differ from one another
\* and to come in no order, which is an assumption on the generator and
\* nothing the code checks.
Uuid_new_v4(k) == MaxRequests + 1 - k

\* RequestSeed::new
RequestSeed_new(recipe_id, options, uuid) ==
    [id |-> RequestId_new(uuid), recipe_id |-> recipe_id, options |-> options]

-----------------------------------------------------------------------------
(* Transport requests (reqwest::Request), as far as RequestRecord reads them *)

\* reqwest::Body::as_bytes: the bytes of an in-memory body, None for a stream
Body_as_bytes(body) ==
    IF body.kind = "Bytes" THEN Some(body.data) ELSE None

BodyBytes(data) == [kind |-> "Bytes", data |-> data]
BodyStream(data) == [kind |-> "Stream", data |-> data]

-----------------------------------------------------------------------------
(* RequestRecord: crates/core/src/http/models.rs *)

\* mutant of RequestRecord::new: the record gets an identifier of its own
\* instead of the seed's
RequestRecord_new_OwnId(seed, profile_id, request, max_body_size) ==
    [id |-> (seed.id % MaxRequests) + 1,
     profile_id |-> profile_id,
     recipe_id |-> seed.recipe_id,
     method |-> request.method,
     url |-> request.url,
     headers |-> request.headers,
     body |-> IF request.body.some
              THEN LET bytes == Body_as_bytes(request.body.val)
                   IN  IF bytes.some /\ Len(bytes.val) <= max_body_size
                       THEN Some(bytes.val)
                       ELSE None
              ELSE None]

\* mutant of RequestRecord::new: a body of exactly the ceiling is thrown away
RequestRecord_new_Strict(seed, profile_id, request, max_body_size) ==
    [id |-> seed.id,
     profile_id |-> profile_id,
     recipe_id |-> seed.recipe_id,
     method |-> request.method,
     url |-> request.url,
     headers |-> request.headers,
     body |-> IF request.body.some
              THEN LET bytes == Body_as_bytes(request.body.val)
                   IN  IF bytes.some /\ Len(bytes.val) < max_body_size
                       THEN Some(bytes.val)
                       ELSE None
              ELSE None]

\* mutant of RequestRecord::new: the profile is not recorded
RequestRecord_new_NoProfile(seed, profile_id, request, max_body_size) ==
    [id |-> seed.id,
     profile_id |-> None,
     recipe_id |-> seed.recipe_id,
     method |-> request.method,
     url |-> request.url,
     headers |-> request.headers,
     body |-> IF request.body.some
              THEN LET bytes == Body_as_bytes(request.body.val)
                   IN  IF bytes.some /\ Len(bytes.val) <= max_body_size
                       THEN Some(bytes.val)
                       ELSE None
              ELSE None]

\* RequestRecord::new
RequestRecord_new(seed, profile_id, request, max_body_size) ==
    [id |-> seed.id,
     profile_id |-> profile_id,
     recipe_id |-> seed.recipe_id,
     method |-> request.method,
     url |-> request.url,
     headers |-> request.headers,
     body |-> IF request.body.some
              THEN LET bytes == Body_as_bytes(request.body.val)
                   IN  IF bytes.some /\ Len(bytes.val) <= max_body_size
                       THEN Some(bytes.val)
                       ELSE None
              ELSE None]

-----------------------------------------------------------------------------
(* Exchange and errors *)

\* Exchange { id, request, response, start_time, end_time }; the id is the
\* request's, as in Factory<(RequestRecord, ResponseRecord)> for Exchange
Exchange_new(request, response, start, end) ==
    [id |-> request.id, request |-> request, response |-> response,
     start_time |-> start, end_time |-> end]

\* mutant of Exchange::duration: the operands change places
Exchange_duration_Reversed(exchange) ==
    exchange.start_time - exchange.end_time

\* Exchange::duration / RequestRecord::duration (src/http/record.rs)
Exchange_duration(exchange) == exchange.end_time - exchange.start_time

\* RequestBuildError
RequestBuildError_new(seed, profile_id, start, end) ==
    [id |-> seed.id, profile_id |-> profile_id, recipe_id |-> seed.recipe_id,
     start_time |-> start, end_time |-> end]

\* RequestError
RequestError_new(request, start, end) ==
    [request |-> request, start_time |-> start, end_time |-> end]

-----------------------------------------------------------------------------
(* Response: parse and prettify, src/http/record.rs *)

\* Response::content_type: the value of the content-type header
Response_content_type(response) == response.content_type

\* Response::parse_body: the external parser accepts a JSON document under a
\* JSON content type, and nothing else
Response_parse_body(response) ==
    IF Response_content_type(response) = Some("application/json")
       /\ response.body = BytesJson
    THEN Some(response.body)
    ELSE None

\* Response::prettify_body
Response_prettify_body(response) == Response_parse_body(response)

-----------------------------------------------------------------------------
(* RequestState: src/tui/view/state.rs *)

\* mutant of RequestState::building: a request starts in Loading
RequestState_building_Loading(id) ==
    [kind |-> "Loading", id |-> id, start_time |-> 0]

\* RequestState::building
RequestState_building(id) == [kind |-> "Building", id |-> id]

\* mutant of RequestState::loading: the wrong variant is constructed
RequestState_loading_Building(id, clock) == [kind |-> "Building", id |-> id]

\* RequestState::loading
RequestState_loading(id, clock) ==
    [kind |-> "Loading", id |-> id, start_time |-> clock]

\* mutant of RequestState::response: the body is not prettified
RequestState_response_NoPretty(record) ==
    [kind |-> "Response", record |-> record, pretty_body |-> None]

\* mutant of RequestState::response: a body that does not parse is an error
RequestState_response_Strict(record) ==
    IF Response_prettify_body(record.response).some
    THEN [kind |-> "Response", record |-> record,
          pretty_body |-> Response_prettify_body(record.response)]
    ELSE [kind |-> "RequestError",
          error |-> [request |-> record.request,
                     start_time |-> record.start_time,
                     end_time |-> record.end_time]]

\* RequestState::response
RequestState_response(record) ==
    [kind |-> "Response", record |-> record,
     pretty_body |-> Response_prettify_body(record.response)]

\* mutant of RequestState::BuildError: the error is dropped and the request
\* is shown as still being built
RequestState_BuildError_Swallowed(error) ==
    [kind |-> "Building", id |-> error.id]

\* RequestState::BuildError { error }
RequestState_BuildError(error) == [kind |-> "BuildError", error |-> error]

\* RequestState::RequestError { error }
RequestState_RequestError(error) == [kind |-> "RequestError", error |-> error]

\* mutant of RequestState::id: the identifier does not depend on the request
RequestState_id_Fixed(state) == 1

\* RequestState::id
RequestState_id(state) ==
    CASE state.kind \in {"Building", "Loading"} -> state.id
      [] state.kind = "BuildError" -> state.error.id
      [] state.kind = "RequestError" -> state.error.request.id
      [] state.kind = "Response" -> state.record.id

\* RequestState::is_initial
RequestState_is_initial(state) == state.kind = "Building"

\* mutant of RequestState::start_time: a build error reports the start of
\* its build
RequestState_start_time_OfBuild(state) ==
    CASE state.kind = "Building" -> None
      [] state.kind = "BuildError" -> Some(state.error.start_time)
      [] state.kind = "Loading" -> Some(state.start_time)
      [] state.kind = "Response" -> Some(state.record.start_time)
      [] state.kind = "RequestError" -> Some(state.error.start_time)

\* RequestState::start_time
RequestState_start_time(state) ==
    CASE state.kind \in {"Building", "BuildError"} -> None
      [] state.kind = "Loading" -> Some(state.start_time)
      [] state.kind = "Response" -> Some(state.record.start_time)
      [] state.kind = "RequestError" -> Some(state.error.start_time)

\* mutant of RequestState::duration: a response keeps a running total
RequestState_duration_Running(state, clock) ==
    CASE state.kind \in {"Building", "BuildError"} -> None
      [] state.kind = "Loading" -> Some(clock - state.start_time)
      [] state.kind = "Response" -> Some(clock - state.record.start_time)
      [] state.kind = "RequestError" ->
            Some(state.error.end_time - state.error.start_time)

\* RequestState::duration
RequestState_duration(state, clock) ==
    CASE state.kind \in {"Building", "BuildError"} -> None
      [] state.kind = "Loading" -> Some(clock - state.start_time)
      [] state.kind = "Response" -> Some(Exchange_duration(state.record))
      [] state.kind = "RequestError" ->
            Some(state.error.end_time - state.error.start_time)

-----------------------------------------------------------------------------
(* The view's slots and the request tasks *)

NoState == [kind |-> "None"]
IdleTask == [pc |-> "idle"]

\* the transport request every build of the lifecycle produces
LifecycleRequest ==
    [method |-> [standard |-> TRUE, name |-> "POST"],
     url |-> [serialization |-> "http://localhost/url"], headers |-> << >>,
     body |-> Some(BodyBytes(BytesJson))]

\* the profile the requests are rendered under
LifecycleProfile == Some("p1")

\* what the transport answers
LifecycleResponses ==
    {[status |-> 200, content_type |-> Some("application/json"),
      body |-> BytesJson],
     [status |-> 500, content_type |-> None, body |-> BytesBinary]}

\* the kinds of state a slot has shown for the request in `state`
Observe(state) ==
    [observed EXCEPT ![RequestState_id(state)] = Append(@, state.kind)]

\* A task reports a new state for its recipe. The state replaces the one in
\* the slot when the slot still belongs to the same request; the report of a
\* superseded request is dropped.
StillRelevant(recipe_id, state) ==
    /\ slots[recipe_id] # NoState
    /\ RequestState_id(slots[recipe_id]) = RequestState_id(state)

Report(recipe_id, state) ==
    IF StillRelevant(recipe_id, state)
    THEN /\ slots' = [slots EXCEPT ![recipe_id] = state]
         /\ observed' = Observe(state)
    ELSE UNCHANGED <<slots, observed>>

\* The user launches a request for a recipe: the slot is replaced by a new
\* Building state and a task starts to build the request; the seed takes
\* what the random generator draws.
SendRequest(recipe_id) ==
    /\ nextId <= MaxRequests
    /\ LET seed == RequestSeed_new(recipe_id, BuildOptions_default,
                                   Uuid_new_v4(nextId))
           state == RequestState_building(seed.id)
       IN  /\ slots' = [slots EXCEPT ![recipe_id] = state]
           /\ observed' = Observe(state)
           /\ tasks' = [tasks EXCEPT ![seed.id] =
                            [pc |-> "build", seed |-> seed, last |-> state,
                             stale |-> FALSE]]
           /\ issued' = Append(issued, seed.id)
    /\ nextId' = nextId + 1
    /\ UNCHANGED <<now, calls, notLifecycleVars>>

\* The build of request i fails.
BuildFails(i) ==
    /\ tasks[i].pc = "build"
    /\ LET seed == tasks[i].seed
           error == RequestBuildError_new(seed, LifecycleProfile, now, now)
           state == RequestState_BuildError(error)
       IN  /\ Report(seed.recipe_id, state)
           /\ tasks' = [tasks EXCEPT ![i] =
                 [pc |-> "done", seed |-> seed, last |-> state,
                  stale |-> ~StillRelevant(seed.recipe_id, state)]]
    /\ UNCHANGED <<nextId, now, issued, calls, notLifecycleVars>>

\* The build of request i succeeds: the ticket holds the record of the
\* transport request and the transport request itself, and goes to be sent.
BuildSucceeds(i) ==
    /\ tasks[i].pc = "build"
    /\ LET seed == tasks[i].seed
           record == RequestRecord_new(seed, LifecycleProfile,
                                       LifecycleRequest, MaxCeiling)
           state == RequestState_loading(seed.id, now)
       IN  /\ Report(seed.recipe_id, state)
           /\ tasks' = [tasks EXCEPT ![i] =
                 [pc |-> "send", seed |-> seed, record |-> record,
                  start_time |-> now, last |-> state,
                  stale |-> ~StillRelevant(seed.recipe_id, state)]]
    /\ calls' = [calls EXCEPT ![i].records = @ + 1]
    /\ UNCHANGED <<nextId, now, issued, notLifecycleVars>>

\* The ticket of request i is sent, which uses it up, and the transport
\* returns a response; RequestState::response prettifies the body.
TransportSucceeds(i) ==
    /\ tasks[i].pc = "send"
    /\ \E response \in LifecycleResponses :
         LET task == tasks[i]
             exchange == Exchange_new(task.record, response,
                                      task.start_time, now)
             state == RequestState_response(exchange)
         IN  /\ Report(task.seed.recipe_id, state)
             /\ tasks' = [tasks EXCEPT ![i] =
                   [pc |-> "done", seed |-> task.seed, last |-> state,
                    stale |-> ~StillRelevant(task.seed.recipe_id, state)]]
    /\ calls' = [calls EXCEPT ![i].sends = @ + 1, ![i].prettified = @ + 1]
    /\ UNCHANGED <<nextId, now, issued, notLifecycleVars>>

\* mutant of TransportFails: the ticket is still there after the send
TransportFails_Resend(i) ==
    /\ tasks[i].pc = "send"
    /\ calls[i].sends <= 1
    /\ LET task == tasks[i]
           error == RequestError_new(task.record, task.start_time, now)
           state == RequestState_RequestError(error)
       IN  /\ Report(task.seed.recipe_id, state)
           /\ tasks' = [tasks EXCEPT ![i].last = state]
    /\ calls' = [calls EXCEPT ![i].sends = @ + 1]
    /\ UNCHANGED <<nextId, now, issued, notLifecycleVars>>

\* The ticket of request i is sent, which uses it up, and the transport fails.
TransportFails(i) ==
    /\ tasks[i].pc = "send"
    /\ LET task == tasks[i]
           error == RequestError_new(task.record, task.start_time, now)
           state == RequestState_RequestError(error)
       IN  /\ Report(task.seed.recipe_id, state)
           /\ tasks' = [tasks EXCEPT ![i] =
                 [pc |-> "done", seed |-> task.seed, last |-> state,
                  stale |-> ~StillRelevant(task.seed.recipe_id, state)]]
    /\ calls' = [calls EXCEPT ![i].sends = @ + 1]
    /\ UNCHANGED <<nextId, now, issued, notLifecycleVars>>

\* The clock read by Utc::now() shows another time: a later one as time
\* passes, an earlier one when the wall clock is set back.
Tick ==
    /\ \E time \in 0..MaxTime :
          /\ time # now
          /\ now' = time
    /\ UNCHANGED <<slots, tasks, nextId, observed, issued, calls,
                   notLifecycleVars>>

LifecycleInit ==
    /\ slots = [r \in Recipes |-> NoState]
    /\ tasks = [i \in RequestIds |-> IdleTask]
    /\ nextId = 1
    /\ now = 0
    /\ observed = [i \in RequestIds |-> << >>]
    /\ issued = << >>
    /\ calls = [i \in RequestIds |->
                   [records |-> 0, sends |-> 0, prettified |-> 0]]

-----------------------------------------------------------------------------
(* Build overrides: crates/core/src/http/models.rs *)

Indexes == 0..MaxIndex
Templates == {"default", "edited"}

\* BuildFieldOverride
Omit == [kind |-> "Omit"]
Override(template) == [kind |-> "Override", template |-> template]
BuildFieldOverride == {Omit} \cup {Override(t) : t \in Templates}

\* HashMap::insert, as FromIterator for BuildFieldOverrides fills the map: a
\* later entry for the same index replaces the earlier one
HashMap_insert(map, key, value) ==
    [k \in (DOMAIN map) \cup {key} |-> IF k = key THEN value ELSE map[k]]

\* mutant of BuildFieldOverrides::get: an omitted field falls back to the
\* default
BuildFieldOverrides_get_OmitIgnored(map, index, default) ==
    IF index \in DOMAIN map /\ map[index].kind = "Override"
    THEN Some(map[index].template)
    ELSE Some(default)

\* BuildFieldOverrides::get
BuildFieldOverrides_get(map, index, default) ==
    IF index \in DOMAIN map
    THEN IF map[index] = Omit
         THEN None
         ELSE Some(map[index].template)
    ELSE Some(default)

NoLookup == [called |-> FALSE]

\* one more (index, override) pair is collected into the map
OverridesInsert(index, override) ==
    /\ overrides' = HashMap_insert(overrides, index, override)
    /\ lookup' = NoLookup
    /\ UNCHANGED notOverrideVars

\* the build asks for the value of the field at an index
OverridesGet(index, default) ==
    /\ lookup' = [called |-> TRUE, index |-> index, default |-> default,
                  result |-> BuildFieldOverrides_get(overrides, index, default)]
    /\ UNCHANGED <<overrides, notOverrideVars>>

OverridesInit ==
    /\ overrides = << >>
    /\ lookup = NoLookup

-----------------------------------------------------------------------------
(* Header maps and their persisted form *)

\* A HeaderMap is a multimap: a sequence of [name, values], one per header
\* name in the order the names were first added, the values of a name in the
\* order they were added.
HeaderMap_new == << >>

HeaderMap_names(map) == {map[k].name : k \in 1..Len(map)}

\* HeaderMap::append
HeaderMap_append(map, entry) ==
    IF entry[1] \in HeaderMap_names(map)
    THEN [k \in 1..Len(map) |->
            IF map[k].name = entry[1]
            THEN [name |-> map[k].name,
                  values |-> Append(map[k].values, entry[2])]
            ELSE map[k]]
    ELSE Append(map, [name |-> entry[1], values |-> <<entry[2]>>])

\* FromIterator for HeaderMap: every (name, value) pair is appended in turn
RECURSIVE HeaderMap_extend(_, _)
HeaderMap_extend(map, entries) ==
    IF entries = << >> THEN map
    ELSE HeaderMap_extend(HeaderMap_append(map, Head(entries)), Tail(entries))

HeaderMap_from_iter(entries) == HeaderMap_extend(HeaderMap_new, entries)

\* HeaderMap::get_all: the values under a name
HeaderMap_get_all(map, name) ==
    IF name \in HeaderMap_names(map)
    THEN (CHOOSE e \in {map[k] : k \in 1..Len(map)} : e.name = name).values
    ELSE << >>

\* HeaderMap::len: the number of values
RECURSIVE HeaderMap_len(_)
HeaderMap_len(map) ==
    IF map = << >> THEN 0
    ELSE Len(Head(map).values) + HeaderMap_len(Tail(map))

\* HeaderMap::iter: every (name, value) pair, one per value
RECURSIVE HeaderMap_iter(_)
HeaderMap_iter(map) ==
    IF map = << >> THEN << >>
    ELSE [k \in 1..Len(Head(map).values) |->
             <<Head(map).name, Head(map).values[k]>>]
         \o HeaderMap_iter(Tail(map))

\* PartialEq for HeaderMap
HeaderMap_eq(a, b) ==
    /\ HeaderMap_len(a) = HeaderMap_len(b)
    /\ \A name \in HeaderMap_names(a) :
          HeaderMap_get_all(a, name) = HeaderMap_get_all(b, name)

\* IndexMap::insert, as collect() fills the map: a key that is already there
\* keeps its place and gets the new value
IndexMap_insert(map, entry) ==
    IF \E k \in 1..Len(map) : map[k][1] = entry[1]
    THEN [k \in 1..Len(map) |->
            IF map[k][1] = entry[1] THEN entry ELSE map[k]]
    ELSE Append(map, entry)

\* FromIterator for IndexMap: every (key, value) pair is inserted in turn
RECURSIVE IndexMap_extend(_, _)
IndexMap_extend(map, entries) ==
    IF entries = << >> THEN map
    ELSE IndexMap_extend(IndexMap_insert(map, Head(entries)), Tail(entries))

IndexMap_from_iter(entries) == IndexMap_extend(<< >>, entries)

\* Result<T, E>
Ok(v) == [ok |-> TRUE, val |-> v]
Err == [ok |-> FALSE]

\* the printable ASCII characters, from space (32) to tilde (126); the grave
\* accent (96) is spelled out
AsciiPrintable ==
    <<
      " ", "!", "\"", "#", "$", "%", "&", "'", "(", ")", "*", "+",
      ",", "-", ".", "/", "0", "1", "2", "3", "4", "5", "6", "7",
      "8", "9", ":", ";", "<", "=", ">", "?", "@", "A", "B", "C",
      "D", "E", "F", "G", "H", "I", "J", "K", "L", "M", "N", "O",
      "P", "Q", "R", "S", "T", "U", "V", "W", "X", "Y", "Z", "[",
      "\\", "]", "^", "_", "grave", "a", "b", "c", "d", "e", "f", "g",
      "h", "i", "j", "k", "l", "m", "n", "o", "p", "q", "r", "s",
      "t", "u", "v", "w", "x", "y", "z", "{", "|", "}", "~"
    >>

\* the byte of an ASCII character
Ascii(c) ==
    31 + (CHOOSE k \in 1..Len(AsciiPrintable) : AsciiPrintable[k] = c)

\* the bytes of a string literal given by its characters
Utf8(chars) == [k \in 1..Len(chars) |-> Ascii(chars[k])]

\* the first position of byte c in text, 0 when there is none
str_find(text, c) ==
    IF \E k \in 1..Len(text) : text[k] = c
    THEN CHOOSE k \in 1..Len(text) :
             text[k] = c /\ \A j \in 1..(k - 1) : text[j] # c
    ELSE 0

\* u8::to_ascii_lowercase
to_ascii_lowercase(b) == IF b >= 65 /\ b <= 90 THEN b + 32 ELSE b

\* the bytes of a token (RFC 7230 tchar): what a method, a header name and a
\* mime type are made of
IsTokenByte(b) ==
    \/ b \in {33, 35, 36, 37, 38, 39, 42, 43, 45, 46, 94, 95, 96, 124, 126}
    \/ (b >= 48 /\ b <= 57)
    \/ (b >= 65 /\ b <= 90)
    \/ (b >= 97 /\ b <= 122)

IsToken(text) == \A k \in 1..Len(text) : IsTokenByte(text[k])

\* the texts the model writes as strings: methods, header names, URLs
Strings ==
    {"GET", "POST", "PUT", "DELETE", "HEAD", "OPTIONS", "TRACE",
     "CONNECT", "PATCH", "PURGE", "FOO", "get", "purge", "G-T",
     "G T", "", "accept", "set-cookie", "content-type",
     "content-disposition", "x-custom", "Accept", "SET-COOKIE",
     "bad name", "http://localhost/url", "HTTP://LOCALHOST/url",
     "http://localhost", "http://localhost/", "http://example.com/",
     "http://localhost/url?a=1#f", "not a url", "/url", "http://"}

\* str::as_bytes of the texts in Strings
as_bytes(s) ==
    CASE s = "GET" ->
              Utf8(<<"G", "E", "T">>)
      [] s = "POST" ->
              Utf8(<<"P", "O", "S", "T">>)
      [] s = "PUT" ->
              Utf8(<<"P", "U", "T">>)
      [] s = "DELETE" ->
              Utf8(<<"D", "E", "L", "E", "T", "E">>)
      [] s = "HEAD" ->
              Utf8(<<"H", "E", "A", "D">>)
      [] s = "OPTIONS" ->
              Utf8(<<"O", "P", "T", "I", "O", "N", "S">>)
      [] s = "TRACE" ->
              Utf8(<<"T", "R", "A", "C", "E">>)
      [] s = "CONNECT" ->
              Utf8(<<"C", "O", "N", "N", "E", "C", "T">>)
      [] s = "PATCH" ->
              Utf8(<<"P", "A", "T", "C", "H">>)
      [] s = "PURGE" ->
              Utf8(<<"P", "U", "R", "G", "E">>)
      [] s = "FOO" ->
              Utf8(<<"F", "O", "O">>)
      [] s = "get" ->
              Utf8(<<"g", "e", "t">>)
      [] s = "purge" ->
              Utf8(<<"p", "u", "r", "g", "e">>)
      [] s = "G-T" ->
              Utf8(<<"G", "-", "T">>)
      [] s = "G T" ->
              Utf8(<<"G", " ", "T">>)
      [] s = "" ->
              << >>
      [] s = "accept" ->
              Utf8(<<"a", "c", "c", "e", "p", "t">>)
      [] s = "set-cookie" ->
              Utf8(<<"s", "e", "t", "-", "c", "o", "o", "k", "i", "e">>)
      [] s = "content-type" ->
              Utf8(<<"c", "o", "n", "t", "e", "n", "t", "-", "t", "y", "p", "e">>)
      [] s = "content-disposition" ->
              Utf8(<<"c", "o", "n", "t", "e", "n", "t", "-", "d", "i", "s", "p",
                "o", "s", "i", "t", "i", "o", "n">>)
      [] s = "x-custom" ->
              Utf8(<<"x", "-", "c", "u", "s", "t", "o", "m">>)
      [] s = "Accept" ->
              Utf8(<<"A", "c", "c", "e", "p", "t">>)
      [] s = "SET-COOKIE" ->
              Utf8(<<"S", "E", "T", "-", "C", "O", "O", "K", "I", "E">>)
      [] s = "bad name" ->
              Utf8(<<"b", "a", "d", " ", "n", "a", "m", "e">>)
      [] s = "http://localhost/url" ->
              Utf8(<<"h", "t", "t", "p", ":", "/", "/", "l", "o", "c", "a", "l",
                "h", "o", "s", "t", "/", "u", "r", "l">>)
      [] s = "HTTP://LOCALHOST/url" ->
              Utf8(<<"H", "T", "T", "P", ":", "/", "/", "L", "O", "C", "A", "L",
                "H", "O", "S", "T", "/", "u", "r", "l">>)
      [] s = "http://localhost" ->
              Utf8(<<"h", "t", "t", "p", ":", "/", "/", "l", "o", "c", "a", "l",
                "h", "o", "s", "t">>)
      [] s = "http://localhost/" ->
              Utf8(<<"h", "t", "t", "p", ":", "/", "/", "l", "o", "c", "a", "l",
                "h", "o", "s", "t", "/">>)
      [] s = "http://example.com/" ->
              Utf8(<<"h", "t", "t", "p", ":", "/", "/", "e", "x", "a", "m", "p",
                "l", "e", ".", "c", "o", "m", "/">>)
      [] s = "http://localhost/url?a=1#f" ->
              Utf8(<<"h", "t", "t", "p", ":", "/", "/", "l", "o", "c", "a", "l",
                "h", "o", "s", "t", "/", "u", "r", "l", "?", "a", "=", "1",
                "#", "f">>)
      [] s = "not a url" ->
              Utf8(<<"n", "o", "t", " ", "a", " ", "u", "r", "l">>)
      [] s = "/url" ->
              Utf8(<<"/", "u", "r", "l">>)
      [] s = "http://" ->
              Utf8(<<"h", "t", "t", "p", ":", "/", "/">>)

\* String::from_utf8 of the bytes of a text in Strings
String_from(bytes) == CHOOSE s \in Strings : as_bytes(s) = bytes

\* [u8]::to_ascii_lowercase
ascii_lowercase(text) ==
    [k \in 1..Len(text) |-> to_ascii_lowercase(text[k])]

\* the header names of the requests and responses of the model
HeaderNames == {"accept", "set-cookie"}

\* HeaderName::try_from(String): a name is a token of one byte or more, and
\* upper case is folded to lower
HeaderName_try_from(name) ==
    IF as_bytes(name) # << >> /\ IsToken(as_bytes(name))
    THEN Ok(String_from(ascii_lowercase(as_bytes(name))))
    ELSE Err

\* HeaderValue::try_from(Vec<u8>): visible ASCII, tab and bytes above 127
IsHeaderValueByte(b) == (b >= 32 /\ b # 127) \/ b = 9
HeaderValue_try_from(bytes) ==
    IF \A k \in 1..Len(bytes) : IsHeaderValueByte(bytes[k])
    THEN Ok(bytes)
    ELSE Err

\* serde_header_map::serialize: the (name, value) pairs collected into an
\* IndexMap<&str, &[u8]>
serde_header_map_serialize(headers) ==
    IndexMap_from_iter(HeaderMap_iter(headers))

\* serde_header_map::deserialize: every entry of the IndexMap<String, Vec<u8>>
\* converted and collected into a HeaderMap; the first failure is the result
serde_header_map_deserialize(map) ==
    IF \A k \in 1..Len(map) :
          HeaderName_try_from(map[k][1]).ok /\ HeaderValue_try_from(map[k][2]).ok
    THEN Ok(HeaderMap_from_iter(
                [k \in 1..Len(map) |->
                    <<HeaderName_try_from(map[k][1]).val,
                      HeaderValue_try_from(map[k][2]).val>>]))
    ELSE Err

\* reqwest::Method: the standard methods are variants of their own, any other
\* token is an extension method; upper and lower case are different methods
StandardMethods == {"OPTIONS", "GET", "POST", "PUT", "DELETE", "HEAD",
                    "TRACE", "CONNECT", "PATCH"}
Method_GET == [standard |-> TRUE, name |-> "GET"]
Method_DELETE == [standard |-> TRUE, name |-> "DELETE"]
Method_PURGE == [standard |-> FALSE, name |-> "PURGE"]

\* Method::as_str
Method_as_str(method) == method.name

\* str::parse::<Method>
Method_parse(text) ==
    IF as_bytes(text) = << >> THEN Err
    ELSE IF text \in StandardMethods
         THEN Ok([standard |-> TRUE, name |-> text])
         ELSE IF IsToken(as_bytes(text))
              THEN Ok([standard |-> FALSE, name |-> text])
              ELSE Err

\* serde_method::serialize
serde_method_serialize(method) == Method_as_str(method)

\* <&str>::deserialize: a deserializer that lends the text of its input (one
\* reading a slice, the text written without escapes) gives the text; one
\* that hands the text over owned (reading from a reader or from a parsed
\* value, or a text written with escapes) gives an error of type
str_deserialize(text, lends) == IF lends THEN Ok(text) ELSE Err

\* serde_method::deserialize
serde_method_deserialize(text, lends) ==
    LET borrowed == str_deserialize(text, lends)
    IN  IF borrowed.ok THEN Method_parse(borrowed.val) ELSE Err

\* Url: serialized as its text, parsed back from it
Url_as_str(url) == url.serialization

\* the bytes of a scheme after its first letter: letters, digits, + - .
IsSchemeByte(b) ==
    \/ (b >= 48 /\ b <= 57)
    \/ (b >= 65 /\ b <= 90)
    \/ (b >= 97 /\ b <= 122)
    \/ b \in {43, 45, 46}

\* the bytes of a host name: visible ASCII but the forbidden host code points
IsHostByte(b) ==
    /\ b > 32 /\ b < 127
    /\ b \notin {35, 37, 47, 58, 60, 62, 63, 64, 91, 92, 93, 94, 124}

\* the first position in text of a byte of the set, Len(text) + 1 when there
\* is none
str_find_any(text, bytes) ==
    IF \E k \in 1..Len(text) : text[k] \in bytes
    THEN CHOOSE k \in 1..Len(text) :
             text[k] \in bytes /\ \A j \in 1..(k - 1) : text[j] \notin bytes
    ELSE Len(text) + 1

\* Url::parse, without a base URL, of scheme://host and what follows it
\* (URLs with user, password, port, a bracketed or numeric host or bytes to
\* escape are not among the texts of the model): a scheme in front of ":",
\* then for http, https, ws, wss and ftp up to two slashes, a host that is not empty, and path,
\* query and fragment; scheme and host are folded to lower case and the
\* empty path becomes "/"
Url_parse(text) ==
    LET bytes == as_bytes(text)
        colon == str_find(bytes, 58)
        scheme == ascii_lowercase(SubSeq(bytes, 1, colon - 1))
        special == scheme \in {Utf8(<<"h", "t", "t", "p">>),
                                Utf8(<<"h", "t", "t", "p", "s">>),
                                Utf8(<<"w", "s">>), Utf8(<<"w", "s", "s">>),
                                Utf8(<<"f", "t", "p">>)}
        after == SubSeq(bytes, colon + 1, Len(bytes))
        authority == IF Len(after) # 0 /\ after[1] \in {47, 92}
                     THEN IF Len(after) >= 2 /\ after[2] \in {47, 92}
                          THEN SubSeq(after, 3, Len(after))
                          ELSE SubSeq(after, 2, Len(after))
                     ELSE after
        stop == str_find_any(authority, {47, 63, 35, 92})
        host == ascii_lowercase(SubSeq(authority, 1, stop - 1))
        tail == SubSeq(authority, stop, Len(authority))
    IN  IF colon <= 1 THEN Err
        ELSE IF ~(to_ascii_lowercase(bytes[1]) >= 97
                  /\ to_ascii_lowercase(bytes[1]) <= 122
                  /\ \A k \in 1..Len(scheme) : IsSchemeByte(scheme[k]))
        THEN Err
        ELSE IF ~special THEN Ok([serialization |->
                                    String_from(scheme \o <<58>> \o after)])
        ELSE IF host = << >> \/ \E k \in 1..Len(host) : ~IsHostByte(host[k])
        THEN Err
        ELSE Ok([serialization |->
                   String_from(scheme \o <<58, 47, 47>> \o host
                               \o (IF tail = << >> \/ tail[1] \in {63, 35}
                                   THEN <<47>> \o tail
                                   ELSE tail))])

\* Serialize for RequestRecord (derived, with the serde_* modules)
RequestRecord_serialize(record) ==
    [id |-> record.id,
     profile_id |-> record.profile_id,
     recipe_id |-> record.recipe_id,
     method |-> serde_method_serialize(record.method),
     url |-> Url_as_str(record.url),
     headers |-> serde_header_map_serialize(record.headers),
     body |-> record.body]

\* Deserialize for RequestRecord (derived, with the serde_* modules)
RequestRecord_deserialize(data, lends) ==
    LET method == serde_method_deserialize(data.method, lends)
        url == Url_parse(data.url)
        headers == serde_header_map_deserialize(data.headers)
    IN  IF method.ok /\ url.ok /\ headers.ok
        THEN Ok([id |-> data.id,
                 profile_id |-> data.profile_id,
                 recipe_id |-> data.recipe_id,
                 method |-> method.val,
                 url |-> url.val,
                 headers |-> headers.val,
                 body |-> data.body])
        ELSE Err

\* PartialEq for RequestRecord (derived)
RequestRecord_eq(a, b) ==
    /\ a.id = b.id
    /\ a.profile_id = b.profile_id
    /\ a.recipe_id = b.recipe_id
    /\ a.method = b.method
    /\ a.url = b.url
    /\ HeaderMap_eq(a.headers, b.headers)
    /\ a.body = b.body

-----------------------------------------------------------------------------
(* Text: strings are sequences of bytes *)

\* str::trim_start_matches / trim_end_matches over one byte class
RECURSIVE TrimStart(_, _)
TrimStart(text, bytes) ==
    IF text # << >> /\ Head(text) \in bytes
    THEN TrimStart(Tail(text), bytes)
    ELSE text

RECURSIVE TrimEnd(_, _)
TrimEnd(text, bytes) ==
    IF text # << >> /\ text[Len(text)] \in bytes
    THEN TrimEnd(SubSeq(text, 1, Len(text) - 1), bytes)
    ELSE text

\* str::trim: white space in a header value is space and tab
str_trim(text) == TrimEnd(TrimStart(text, {32, 9}), {32, 9})

\* str::trim_matches(c)
str_trim_matches(text, c) == TrimEnd(TrimStart(text, {c}), {c})

\* str::split_once(c)
str_split_once(text, c) ==
    IF str_find(text, c) = 0 THEN None
    ELSE Some(<<SubSeq(text, 1, str_find(text, c) - 1),
                SubSeq(text, str_find(text, c) + 1, Len(text))>>)

\* str::split(c): the parts between the occurrences of c
RECURSIVE str_split(_, _)
str_split(text, c) ==
    IF str_find(text, c) = 0 THEN <<text>>
    ELSE <<SubSeq(text, 1, str_find(text, c) - 1)>>
            \o str_split(SubSeq(text, str_find(text, c) + 1, Len(text)), c)

\* usize as decimal digits (Display for usize)
RECURSIVE usize_to_string(_)
usize_to_string(n) ==
    IF n < 10 THEN <<48 + n>>
    ELSE usize_to_string(n \div 10) \o <<48 + (n % 10)>>

\* std::str::from_utf8 accepts: well-formed UTF-8 (Unicode, table 3-7)
IsContinuation(b) == b >= 128 /\ b <= 191

RECURSIVE IsUtf8(_)
IsUtf8(bytes) ==
    IF bytes = << >> THEN TRUE
    ELSE LET b == bytes[1]
             n == Len(bytes)
         IN  IF b <= 127 THEN IsUtf8(Tail(bytes))
             ELSE IF b >= 194 /\ b <= 223
             THEN /\ n >= 2
                  /\ IsContinuation(bytes[2])
                  /\ IsUtf8(SubSeq(bytes, 3, n))
             ELSE IF b >= 224 /\ b <= 239
             THEN /\ n >= 3
                  /\ IsContinuation(bytes[2])
                  /\ b = 224 => bytes[2] >= 160
                  /\ b = 237 => bytes[2] <= 159
                  /\ IsContinuation(bytes[3])
                  /\ IsUtf8(SubSeq(bytes, 4, n))
             ELSE IF b >= 240 /\ b <= 244
             THEN /\ n >= 4
                  /\ IsContinuation(bytes[2])
                  /\ b = 240 => bytes[2] >= 144
                  /\ b = 244 => bytes[2] <= 143
                  /\ IsContinuation(bytes[3])
                  /\ IsContinuation(bytes[4])
                  /\ IsUtf8(SubSeq(bytes, 5, n))
             ELSE FALSE

\* std::str::from_utf8
str_from_utf8(bytes) == IF IsUtf8(bytes) THEN Ok(bytes) ELSE Err

\* HeaderValue::to_str: the value as text, when every byte is visible ASCII
\* (32..126) or a tab
HeaderValue_to_str(value) ==
    IF \A k \in 1..Len(value) :
          (value[k] >= 32 /\ value[k] < 127) \/ value[k] = 9
    THEN Ok(value)
    ELSE Err

\* HeaderMap::get: the first value under a name
HeaderMap_get(map, name) ==
    IF name \in HeaderMap_names(map)
    THEN Some(HeaderMap_get_all(map, name)[1])
    ELSE None

-----------------------------------------------------------------------------
(* Request records: construction, persistence *)

\* bytes of a body or of a header value: an ASCII letter, and a byte that
\* never occurs in UTF-8
SampleBytes == {65, 255}
ByteStrings(n) == UNION {[1..k -> SampleBytes] : k \in 0..n}

HeaderValues == {<<65>>, <<255>>}
HeaderEntries ==
    UNION {[1..k -> HeaderNames \X HeaderValues] : k \in 0..MaxHeaders}

\* the transport requests a build can produce
TransportBodies ==
    {None} \cup {Some(BodyBytes(d)) : d \in ByteStrings(MaxBodyLen)}
           \cup {Some(BodyStream(d)) : d \in ByteStrings(MaxBodyLen)}
TransportMethods == {Method_GET, Method_DELETE, Method_PURGE}

\* the seeds of the builds
SampleSeeds ==
    {RequestSeed_new("r1", BuildOptions_default, 1),
     RequestSeed_new("r2", BuildOptions_default, 2)}

NotBuilt == [built |-> FALSE]
NotStored == [stored |-> FALSE]
NotLoaded == [loaded |-> FALSE]

\* a build ends: the record of the transport request is made
NewRecord(seed, profile_id, request, max_body_size) ==
    /\ built' = [built |-> TRUE, seed |-> seed, profile_id |-> profile_id,
                 request |-> request, max_body_size |-> max_body_size,
                 record |-> RequestRecord_new(seed, profile_id, request,
                                              max_body_size)]
    /\ stored' = NotStored
    /\ loaded' = NotLoaded
    /\ UNCHANGED notRequestVars

\* the record is written to the history
PersistRecord ==
    /\ built.built
    /\ ~stored.stored
    /\ stored' = [stored |-> TRUE, data |-> RequestRecord_serialize(built.record)]
    /\ UNCHANGED <<built, loaded, notRequestVars>>

\* the record is read back from the history, by a deserializer that lends
\* the texts or by one that does not
LoadRecord(lends) ==
    /\ stored.stored
    /\ ~loaded.loaded
    /\ loaded' = [loaded |-> TRUE, lends |-> lends,
                  result |-> RequestRecord_deserialize(stored.data, lends)]
    /\ UNCHANGED <<built, stored, notRequestVars>>

RequestInit ==
    /\ built = NotBuilt
    /\ stored = NotStored
    /\ loaded = NotLoaded

-----------------------------------------------------------------------------
(* Response records: crates/core/src/http/models.rs *)

\* ResponseBody::new
ResponseBody_new(data) == [data |-> data, parsed |-> None]

\* ResponseBody::parsed
ResponseBody_parsed(body) == body.parsed

\* ResponseRecord::set_parsed_body
ResponseRecord_set_parsed_body(record, content) ==
    [record EXCEPT !.body.parsed = Some(content)]

\* mutant of Serialize for ResponseBody: the parsed form is written as well
ResponseBody_serialize_WithParsed(body) == <<body.data, body.parsed>>

\* Serialize for ResponseBody: just the bytes
ResponseBody_serialize(body) == body.data

\* From<Bytes> for ResponseBody, which is how a ResponseBody is deserialized
\* (serde(from = "Bytes"))
ResponseBody_from(bytes) == ResponseBody_new(bytes)

\* PartialEq for ResponseBody: the parsed form is ignored
ResponseBody_eq(a, b) == a.data = b.data

\* serde_status_code::serialize: the code as a u16
serde_status_code_serialize(status_code) == status_code

\* serde_status_code::deserialize: StatusCode::from_u16 takes 100..999
serde_status_code_deserialize(code) ==
    IF code >= 100 /\ code < 1000 THEN Ok(code) ELSE Err

\* Serialize for ResponseRecord (derived, with the serde_* modules)
ResponseRecord_serialize(record) ==
    [status |-> serde_status_code_serialize(record.status),
     headers |-> serde_header_map_serialize(record.headers),
     body |-> ResponseBody_serialize(record.body)]

\* Deserialize for ResponseRecord (derived, with the serde_* modules)
ResponseRecord_deserialize(data) ==
    LET status == serde_status_code_deserialize(data.status)
        headers == serde_header_map_deserialize(data.headers)
    IN  IF status.ok /\ headers.ok
        THEN Ok([status |-> status.val,
                 headers |-> headers.val,
                 body |-> ResponseBody_from(data.body)])
        ELSE Err

\* PartialEq for ResponseRecord (derived)
ResponseRecord_eq(a, b) ==
    /\ a.status = b.status
    /\ HeaderMap_eq(a.headers, b.headers)
    /\ ResponseBody_eq(a.body, b.body)

\* the parsed forms a parser can hand over (Box<dyn ResponseContent>)
ParsedContents ==
    {[content_type |-> "Json", document |-> "object"],
     [content_type |-> "Json", document |-> "array"]}

ResponseStatuses == {200, 404}
ResponseHeaderEntries ==
    UNION {[1..k -> HeaderNames \X HeaderValues] : k \in 0..1}

NoResponse == [received |-> FALSE]

\* the transport answers: the response record is made from status, headers
\* and body bytes
ResponseReceived(status, headers, data) ==
    /\ ~received.received
    /\ received' = [received |-> TRUE,
                    record |-> [status |-> status, headers |-> headers,
                                body |-> ResponseBody_new(data)]]
    /\ UNCHANGED <<persisted, restored, notResponseVars>>

\* a parse of the body has ended and its result is attached
SetParsedBody(content) ==
    /\ received.received
    /\ received' = [received EXCEPT
                       !.record = ResponseRecord_set_parsed_body(@, content)]
    /\ UNCHANGED <<persisted, restored, notResponseVars>>

\* the response record is written to the history
PersistResponse ==
    /\ received.received
    /\ ~persisted.stored
    /\ persisted' = [stored |-> TRUE,
                     data |-> ResponseRecord_serialize(received.record)]
    /\ UNCHANGED <<received, restored, notResponseVars>>

\* the response record is read back from the history
LoadResponse ==
    /\ persisted.stored
    /\ ~restored.loaded
    /\ restored' = [loaded |-> TRUE,
                    result |-> ResponseRecord_deserialize(persisted.data)]
    /\ UNCHANGED <<received, persisted, notResponseVars>>

ResponseInit ==
    /\ received = NoResponse
    /\ persisted = NotStored
    /\ restored = NotLoaded

-----------------------------------------------------------------------------
(* Accessors of the records: crates/core/src/http/models.rs *)

\* a failed anyhow::Result, with the context of the failure
Error(context) == [ok |-> FALSE, context |-> context]

\* the last position of byte c in text, 0 when there is none
str_rfind(text, c) ==
    IF \E k \in 1..Len(text) : text[k] = c
    THEN CHOOSE k \in 1..Len(text) :
             text[k] = c /\ \A j \in (k + 1)..Len(text) : text[j] # c
    ELSE 0

\* mime: one parameter, name=value
IsMimeParam(part) ==
    LET kv == str_split_once(str_trim(part), 61)
    IN  /\ kv.some
        /\ kv.val[1] # << >> /\ IsToken(kv.val[1])
        /\ kv.val[2] # << >> /\ IsToken(str_trim_matches(kv.val[2], 34))

\* str::parse::<Mime>: type "/" subtype, then optional parameters after ";";
\* a "+" inside the subtype starts the suffix; upper case is folded to lower
Mime_parse(text) ==
    LET lower == [k \in 1..Len(text) |-> to_ascii_lowercase(text[k])]
        slash == str_find(lower, 47)
        semicolon == str_find(lower, 59)
        stop == IF semicolon = 0 THEN Len(lower) + 1 ELSE semicolon
        essence == str_trim(SubSeq(lower, slash + 1, stop - 1))
        plus == str_rfind(essence, 43)
    IN  IF slash <= 1 \/ stop < slash THEN Err
        ELSE IF ~IsToken(SubSeq(lower, 1, slash - 1)) THEN Err
        ELSE IF essence = << >> \/ ~IsToken(essence) THEN Err
        ELSE IF semicolon # 0
                /\ \E k \in 1..Len(str_split(SubSeq(lower, stop + 1,
                                                    Len(lower)), 59)) :
                      ~IsMimeParam(str_split(SubSeq(lower, stop + 1,
                                                    Len(lower)), 59)[k])
        THEN Err
        ELSE Ok([type |-> SubSeq(lower, 1, slash - 1),
                 subtype |-> IF plus > 1
                             THEN SubSeq(essence, 1, plus - 1)
                             ELSE essence,
                 suffix |-> IF plus > 1
                            THEN Some(SubSeq(essence, plus + 1, Len(essence)))
                            ELSE None])

\* Mime::subtype
Mime_subtype(mime) == mime.subtype

\* the closure over one part of Content-Disposition in file_name
FilenameOfPart(part) ==
    LET kv == str_split_once(str_trim(part), 61)
    IN  IF ~kv.some THEN None
        ELSE IF kv.val[1] = Utf8(<<"f", "i", "l", "e", "n", "a", "m", "e">>)
        THEN Some(str_trim_matches(kv.val[2], 34))
        ELSE None

\* Iterator::find_map over the parts
RECURSIVE find_map_FilenameOfPart(_)
find_map_FilenameOfPart(parts) ==
    IF parts = << >> THEN None
    ELSE IF FilenameOfPart(Head(parts)).some
         THEN FilenameOfPart(Head(parts))
         ELSE find_map_FilenameOfPart(Tail(parts))

\* the first half of file_name: the filename parameter of Content-Disposition
FileNameOfDisposition(headers) ==
    LET value == HeaderMap_get(headers, "content-disposition")
    IN  IF ~value.some THEN None
        ELSE IF ~HeaderValue_to_str(value.val).ok THEN None
        ELSE find_map_FilenameOfPart(
                 str_split(HeaderValue_to_str(value.val).val, 59))

\* the second half of file_name: data.<subtype> of Content-Type
FileNameOfContentType(headers) ==
    LET content_type == HeaderMap_get(headers, "content-type")
    IN  IF ~content_type.some THEN None
        ELSE IF ~HeaderValue_to_str(content_type.val).ok THEN None
        ELSE IF ~Mime_parse(HeaderValue_to_str(content_type.val).val).ok
        THEN None
        ELSE Some(Utf8(<<"d", "a", "t", "a", ".">>)
                  \o Mime_subtype(
                       Mime_parse(HeaderValue_to_str(content_type.val).val).val))

\* mutant of ResponseRecord::file_name: the content type is asked first
ResponseRecord_file_name_TypeFirst(record) ==
    IF FileNameOfContentType(record.headers).some
    THEN FileNameOfContentType(record.headers)
    ELSE FileNameOfDisposition(record.headers)

\* ResponseRecord::file_name
ResponseRecord_file_name(record) ==
    IF FileNameOfDisposition(record.headers).some
    THEN FileNameOfDisposition(record.headers)
    ELSE FileNameOfContentType(record.headers)

\* ContentType::from_headers: the content type a Content-Type header names,
\* when it is one the application can parse (JSON)
ContentType_from_headers(headers) ==
    LET value == HeaderMap_get(headers, "content-type")
    IN  IF ~value.some THEN Err
        ELSE IF ~IsUtf8(value.val) THEN Err
        ELSE IF ~Mime_parse(value.val).ok THEN Err
        ELSE IF \/ Mime_parse(value.val).val.subtype = Utf8(<<"j", "s", "o", "n">>)
                \/ Mime_parse(value.val).val.suffix
                      = Some(Utf8(<<"j", "s", "o", "n">>))
        THEN Ok("Json")
        ELSE Err

\* mutant of ResponseRecord::content_type: only the header is asked
ResponseRecord_content_type_HeaderOnly(record) ==
    IF ContentType_from_headers(record.headers).ok
    THEN Some(ContentType_from_headers(record.headers).val)
    ELSE None

\* ResponseRecord::content_type
ResponseRecord_content_type(record) ==
    IF ResponseBody_parsed(record.body).some
    THEN Some(ResponseBody_parsed(record.body).val.content_type)
    ELSE IF ContentType_from_headers(record.headers).ok
         THEN Some(ContentType_from_headers(record.headers).val)
         ELSE None

\* mutant of ResponseBody::text: bytes that are no text are replaced
ResponseBody_text_Lossy(body) ==
    IF IsUtf8(body.data) THEN Some(body.data) ELSE Some(<<63>>)

\* ResponseBody::text
ResponseBody_text(body) ==
    IF str_from_utf8(body.data).ok
    THEN Some(str_from_utf8(body.data).val)
    ELSE None

\* mutant of Debug for ResponseBody: the bytes are printed
ResponseBody_fmt_debug_Bytes(body) ==
    Utf8(<<"B", "o", "d", "y", "(", "\"">>) \o body.data \o Utf8(<<"\"", ")">>)

\* Debug for ResponseBody: Body("<N bytes>")
ResponseBody_fmt_debug(body) ==
    Utf8(<<"B", "o", "d", "y", "(", "\"", "<">>)
        \o usize_to_string(Len(body.data))
        \o Utf8(<<" ", "b", "y", "t", "e", "s", ">", "\"", ")">>)

\* Debug for Body (src/http/record.rs), whose content is a String
Body_fmt_debug(body) ==
    Utf8(<<"B", "o", "d", "y", "(", "\"", "<">>)
        \o usize_to_string(Len(body))
        \o Utf8(<<" ", "b", "y", "t", "e", "s", ">", "\"", ")">>)

\* RequestRecord::body
RequestRecord_body(record) == record.body

\* mutant of RequestRecord::body_str: bytes that are no text are replaced
RequestRecord_body_str_Lossy(record) ==
    IF record.body.some
    THEN IF IsUtf8(record.body.val)
         THEN Ok(Some(record.body.val))
         ELSE Ok(Some(<<63>>))
    ELSE Ok(None)

\* RequestRecord::body_str
RequestRecord_body_str(record) ==
    IF record.body.some
    THEN IF str_from_utf8(record.body.val).ok
         THEN Ok(Some(str_from_utf8(record.body.val).val))
         ELSE Error("Error decoding body")
    ELSE Ok(None)

\* the loop over the headers in to_curl: the flags written so far, or the
\* failure of the first value that is no text
RECURSIVE CurlHeaders(_, _)
CurlHeaders(buf, entries) ==
    IF entries = << >> THEN Ok(buf)
    ELSE IF ~HeaderValue_to_str(Head(entries)[2]).ok
         THEN Error("Error decoding header value")
         ELSE CurlHeaders(
                  buf \o Utf8(<<" ", "-", "-", "h", "e", "a", "d", "e", "r", " ", "'">>)
                      \o as_bytes(Head(entries)[1])
                      \o Utf8(<<":", " ">>)
                      \o HeaderValue_to_str(Head(entries)[2]).val
                      \o Utf8(<<"'">>),
                  Tail(entries))

\* mutant of RequestRecord::to_curl: a record without body gets an empty
\* --data flag
RequestRecord_to_curl_DataAlways(record) ==
    LET start == Utf8(<<"c", "u", "r", "l", " ", "-", "X">>)
                     \o as_bytes(Method_as_str(record.method))
                     \o Utf8(<<" ", "-", "-", "u", "r", "l", " ", "'">>)
                     \o as_bytes(Url_as_str(record.url))
                     \o Utf8(<<"'">>)
        headers == CurlHeaders(start, HeaderMap_iter(record.headers))
    IN  IF ~headers.ok THEN headers
        ELSE IF ~RequestRecord_body_str(record).ok
        THEN RequestRecord_body_str(record)
        ELSE Ok(headers.val
                   \o Utf8(<<" ", "-", "-", "d", "a", "t", "a", " ", "'">>)
                   \o (IF RequestRecord_body_str(record).val.some
                       THEN RequestRecord_body_str(record).val.val
                       ELSE << >>)
                   \o Utf8(<<"'">>))

\* RequestRecord::to_curl
RequestRecord_to_curl(record) ==
    LET start == Utf8(<<"c", "u", "r", "l", " ", "-", "X">>)
                     \o as_bytes(Method_as_str(record.method))
                     \o Utf8(<<" ", "-", "-", "u", "r", "l", " ", "'">>)
                     \o as_bytes(Url_as_str(record.url))
                     \o Utf8(<<"'">>)
        headers == CurlHeaders(start, HeaderMap_iter(record.headers))
    IN  IF ~headers.ok THEN headers
        ELSE IF ~RequestRecord_body_str(record).ok
        THEN RequestRecord_body_str(record)
        ELSE IF RequestRecord_body_str(record).val.some
        THEN Ok(headers.val
                   \o Utf8(<<" ", "-", "-", "d", "a", "t", "a", " ", "'">>)
                   \o RequestRecord_body_str(record).val.val
                   \o Utf8(<<"'">>))
        ELSE Ok(headers.val)

-----------------------------------------------------------------------------
(* Calls of the accessors *)

\* a parameter of Content-Disposition: its key as written, its value, whether
\* the value is in double quotes and whether a space follows the semicolon
DispositionKeys ==
    {Utf8(<<"f", "i", "l", "e", "n", "a", "m", "e">>),
     Utf8(<<"F", "i", "l", "e", "n", "a", "m", "e">>),
     Utf8(<<"F", "I", "L", "E", "N", "A", "M", "E">>),
     Utf8(<<"n", "a", "m", "e">>)}

IsFilenameKey(key) ==
    [k \in 1..Len(key) |-> to_ascii_lowercase(key[k])]
        = Utf8(<<"f", "i", "l", "e", "n", "a", "m", "e">>)

ParamValue(key) ==
    IF IsFilenameKey(key)
    THEN Utf8(<<"f", "i", "s", "h", ".", "p", "n", "g">>)
    ELSE Utf8(<<"f", "i", "e", "l", "d">>)

DispositionParams ==
    {[key |-> key, value |-> ParamValue(key), quoted |-> quoted,
      spaced |-> spaced] :
        key \in DispositionKeys, quoted \in BOOLEAN, spaced \in BOOLEAN}

\* the Content-Disposition headers of the responses: none, one that is no
\* text, and form-data with up to MaxParams parameters
Dispositions ==
    {[kind |-> "absent"], [kind |-> "binary"]}
        \cup {[kind |-> "text", params |-> params] :
                 params \in UNION {[1..n -> DispositionParams] :
                                      n \in 0..MaxParams}}

\* the header value of a disposition
RECURSIVE RenderParams(_)
RenderParams(params) ==
    IF params = << >> THEN << >>
    ELSE <<59>>
            \o (IF Head(params).spaced THEN <<32>> ELSE << >>)
            \o Head(params).key
            \o <<61>>
            \o (IF Head(params).quoted
                THEN <<34>> \o Head(params).value \o <<34>>
                ELSE Head(params).value)
            \o RenderParams(Tail(params))

RenderDisposition(disposition) ==
    IF disposition.kind = "binary" THEN <<255>>
    ELSE Utf8(<<"f", "o", "r", "m", "-", "d", "a", "t", "a">>) \o RenderParams(disposition.params)

\* the Content-Type headers of the responses, each with the subtype it names
\* when it is a MIME type and whether the application can parse the type
ContentTypeSamples ==
    {[kind |-> "absent", subtype |-> None, known |-> FALSE],
     [kind |-> "present", value |-> <<255>>, subtype |-> None,
      known |-> FALSE],
     [kind |-> "present",
      value |-> Utf8(<<"g", "a", "r", "b", "a", "g", "e">>),
      subtype |-> None, known |-> FALSE],
     [kind |-> "present",
      value |-> Utf8(<<"a", "p", "p", "l", "i", "c", "a", "t", "i", "o", "n", "/",
                 "j", "s", "o", "n">>),
      subtype |-> Some(Utf8(<<"j", "s", "o", "n">>)),
      known |-> TRUE],
     [kind |-> "present",
      value |-> Utf8(<<"i", "m", "a", "g", "e", "/", "j", "p", "e", "g">>),
      subtype |-> Some(Utf8(<<"j", "p", "e", "g">>)),
      known |-> FALSE],
     [kind |-> "present",
      value |-> Utf8(<<"i", "m", "a", "g", "e", "/", "s", "v", "g", "+", "x", "m", "l">>),
      subtype |-> Some(Utf8(<<"s", "v", "g">>)),
      known |-> FALSE],
     [kind |-> "present",
      value |-> Utf8(<<"t", "e", "x", "t", "/", "h", "t", "m", "l", ";", " ", "c",
                 "h", "a", "r", "s", "e", "t", "=", "u", "t", "f", "-", "8">>),
      subtype |-> Some(Utf8(<<"h", "t", "m", "l">>)),
      known |-> FALSE]}

\* bodies, each with whether its bytes are UTF-8 text
BodySamples ==
    {[bytes |-> << >>, utf8 |-> TRUE],
     [bytes |-> <<65>>, utf8 |-> TRUE],
     [bytes |-> <<66>>, utf8 |-> TRUE],
     [bytes |-> <<123, 125>>, utf8 |-> TRUE],
     [bytes |-> <<195, 169>>, utf8 |-> TRUE],
     [bytes |-> <<226, 130, 172>>, utf8 |-> TRUE],
     [bytes |-> <<240, 159, 152, 128>>, utf8 |-> TRUE],
     [bytes |-> <<255>>, utf8 |-> FALSE],
     [bytes |-> <<254>>, utf8 |-> FALSE],
     [bytes |-> <<169>>, utf8 |-> FALSE],
     [bytes |-> <<195>>, utf8 |-> FALSE],
     [bytes |-> <<65, 255>>, utf8 |-> FALSE],
     [bytes |-> <<192, 128>>, utf8 |-> FALSE],
     [bytes |-> <<237, 160, 128>>, utf8 |-> FALSE],
     [bytes |-> <<48, 49, 50, 51, 52, 53, 54, 55, 56, 57>>, utf8 |-> TRUE],
     [bytes |-> <<48, 49, 50, 51, 52, 53, 54, 55, 0, 255>>, utf8 |-> FALSE]}

BodyOptions == {[kind |-> "absent"]}
                  \cup {[kind |-> "present", sample |-> sample] :
                           sample \in BodySamples}

BodyOf(option) ==
    IF option.kind = "present" THEN Some(option.sample.bytes) ELSE None

\* header values of the requests, each with whether it is UTF-8 text: ASCII,
\* UTF-8 beyond ASCII, and bytes that are no text
CurlHeaderValues ==
    {[bytes |-> Utf8(<<"*", "/", "*">>), utf8 |-> TRUE],
     [bytes |-> <<195, 169>>, utf8 |-> TRUE],
     [bytes |-> <<255>>, utf8 |-> FALSE]}

CurlHeaderEntries ==
    UNION {[1..k -> HeaderNames \X CurlHeaderValues] : k \in 0..MaxHeaders}

\* the response record with the given headers and body
ResponseWith(disposition, content_type, body) ==
    [status |-> 200,
     headers |-> HeaderMap_from_iter(
         (IF disposition.kind = "absent" THEN << >>
          ELSE <<<<"content-disposition", RenderDisposition(disposition)>>>>)
         \o (IF content_type.kind = "absent" THEN << >>
             ELSE <<<<"content-type", content_type.value>>>>)),
     body |-> body]

NotQueried == [fn |-> "none"]

\* ResponseRecord::file_name is called
FileName(disposition, content_type) ==
    /\ queried' =
          [fn |-> "file_name",
           disposition |-> disposition,
           content_type |-> content_type,
           result |-> ResponseRecord_file_name(
                          ResponseWith(disposition, content_type,
                                       ResponseBody_new(<< >>)))]
    /\ UNCHANGED notAccessorVars

\* ResponseRecord::content_type is called, before or after a parsed body was
\* attached
ContentTypeOf(parsed, content_type) ==
    /\ queried' =
          [fn |-> "content_type",
           parsed |-> parsed,
           content_type |-> content_type,
           result |-> ResponseRecord_content_type(
                          ResponseWith([kind |-> "absent"], content_type,
                                       [data |-> BytesJson,
                                        parsed |-> parsed]))]
    /\ UNCHANGED notAccessorVars

\* ResponseBody::text is called
ResponseText(sample) ==
    /\ queried' = [fn |-> "text",
                   sample |-> sample,
                   result |-> ResponseBody_text(ResponseBody_new(sample.bytes))]
    /\ UNCHANGED notAccessorVars

\* a response body is formatted with {:?}, as is a body of src/http/record.rs
DebugBody(sample) ==
    /\ queried' = [fn |-> "debug",
                   sample |-> sample,
                   result |-> ResponseBody_fmt_debug(
                                  ResponseBody_new(sample.bytes)),
                   old |-> Body_fmt_debug(sample.bytes)]
    /\ UNCHANGED notAccessorVars

\* the request record with the given method, headers and body
RequestWith(method, entries, body) ==
    [id |-> 1, profile_id |-> None, recipe_id |-> "r1",
     method |-> method,
     url |-> [serialization |-> "http://localhost/url"],
     headers |-> HeaderMap_from_iter(
                     [k \in 1..Len(entries) |->
                         <<entries[k][1], entries[k][2].bytes>>]),
     body |-> BodyOf(body)]

\* RequestRecord::to_curl is called
ToCurl(method, entries, body) ==
    /\ queried' = [fn |-> "to_curl",
                   method |-> method,
                   entries |-> entries,
                   body |-> body,
                   result |-> RequestRecord_to_curl(
                                  RequestWith(method, entries, body))]
    /\ UNCHANGED notAccessorVars

\* RequestRecord::body and RequestRecord::body_str are called
BodyStr(body) ==
    /\ queried' = [fn |-> "body_str",
                   body |-> body,
                   bytes |-> RequestRecord_body(
                                 RequestWith(Method_GET, << >>, body)),
                   result |-> RequestRecord_body_str(
                                  RequestWith(Method_GET, << >>, body))]
    /\ UNCHANGED notAccessorVars

AccessorInit == queried = NotQueried

-----------------------------------------------------------------------------
(* TextWindow: crates/tui/src/view/common/text_window.rs *)

\* usize: the numbers modulo 2^64. The numbers below 2^63 are written as
\* they are, and 2^64 - k, for k up to 2^63, is written -k (the bit pattern
\* read as a signed number).

\* usize::MAX, 2^64 - 1
usize_MAX == -1

\* a <= b for usize
usize_le(a, b) == IF (a < 0) = (b < 0) THEN a <= b ELSE b < 0

\* 2^64 modulo n, by squaring 2^16 twice
Pow2_64_mod(n) == ((((65536 % n) * (65536 % n)) % n)
                       * (((65536 % n) * (65536 % n)) % n)) % n

\* a % n for usize, n at least 1 and small
usize_rem(a, n) ==
    IF a >= 0 THEN a % n ELSE (Pow2_64_mod(n) + (a % n)) % n

\* usize::saturating_sub
saturating_sub(a, b) == IF usize_le(b, a) THEN a - b ELSE 0

\* cmp::min
cmp_min(a, b) == IF usize_le(a, b) THEN a ELSE b

\* TextWindow::default
TextWindow_default ==
    [offset_x |-> 0, offset_y |-> 0, text_width |-> 0, text_height |-> 0,
     window_width |-> 0, window_height |-> 0]

\* TextWindow::max_scroll_line
TextWindow_max_scroll_line(self) ==
    saturating_sub(self.text_height, self.window_height)

\* TextWindow::max_scroll_column
TextWindow_max_scroll_column(self) ==
    saturating_sub(self.text_width, self.window_width)

\* TextWindow::scroll_up
TextWindow_scroll_up(self, lines) ==
    [self EXCEPT !.offset_y = saturating_sub(self.offset_y, lines)]

\* mutant of TextWindow::scroll_down: the last page is not looked at
TextWindow_scroll_down_Unbounded(self, lines) ==
    [self EXCEPT !.offset_y = self.offset_y + lines]

\* TextWindow::scroll_down
TextWindow_scroll_down(self, lines) ==
    [self EXCEPT !.offset_y = cmp_min(self.offset_y + lines,
                                      TextWindow_max_scroll_line(self))]

\* mutant of TextWindow::scroll_to: the last page is not looked at
TextWindow_scroll_to_Unbounded(self, line) ==
    [self EXCEPT !.offset_y = line]

\* TextWindow::scroll_to
TextWindow_scroll_to(self, line) ==
    [self EXCEPT !.offset_y = cmp_min(line, TextWindow_max_scroll_line(self))]

\* mutant of TextWindow::scroll_left: the line offset moves along
TextWindow_scroll_left_Diagonal(self, columns) ==
    [self EXCEPT !.offset_x = saturating_sub(self.offset_x, columns),
                 !.offset_y = saturating_sub(self.offset_y, columns)]

\* TextWindow::scroll_left
TextWindow_scroll_left(self, columns) ==
    [self EXCEPT !.offset_x = saturating_sub(self.offset_x, columns)]

\* TextWindow::scroll_right
TextWindow_scroll_right(self, columns) ==
    [self EXCEPT !.offset_x = cmp_min(self.offset_x + columns,
                                      TextWindow_max_scroll_column(self))]

\* mutant of TextWindow::clamp_scroll: the offsets are left as they are
TextWindow_clamp_scroll_Skipped(self) == self

\* TextWindow::clamp_scroll
TextWindow_clamp_scroll(self) ==
    [self EXCEPT
        !.offset_x = cmp_min(self.offset_x, TextWindow_max_scroll_column(self)),
        !.offset_y = cmp_min(self.offset_y, TextWindow_max_scroll_line(self))]

\* the actions an event can carry; "Submit" stands for every action the
\* window does not handle, "None" for an event without action
Actions ==
    {"Up", "ScrollUp", "Down", "ScrollDown", "ScrollLeft", "ScrollRight",
     "PageUp", "PageDown", "Home", "End", "Submit", "None"}

\* EventHandler::update for TextWindow: the window after the event, and
\* whether the event was consumed
TextWindow_update(self, action) ==
    CASE action \in {"Up", "ScrollUp"} ->
            [self |-> TextWindow_scroll_up(self, 1), update |-> "Consumed"]
      [] action \in {"Down", "ScrollDown"} ->
            [self |-> TextWindow_scroll_down(self, 1), update |-> "Consumed"]
      [] action = "ScrollLeft" ->
            [self |-> TextWindow_scroll_left(self, 1), update |-> "Consumed"]
      [] action = "ScrollRight" ->
            [self |-> TextWindow_scroll_right(self, 1), update |-> "Consumed"]
      [] action = "PageUp" ->
            [self |-> TextWindow_scroll_up(self, self.window_height),
             update |-> "Consumed"]
      [] action = "PageDown" ->
            [self |-> TextWindow_scroll_down(self, self.window_height),
             update |-> "Consumed"]
      [] action = "Home" ->
            [self |-> TextWindow_scroll_to(self, 0), update |-> "Consumed"]
      [] action = "End" ->
            [self |-> TextWindow_scroll_to(self, usize_MAX),
             update |-> "Consumed"]
      [] OTHER -> [self |-> self, update |-> "Propagate"]

\* a text is the sequence of the widths of its lines
Text_height(text) == Len(text)

RECURSIVE Text_width(_)
Text_width(text) ==
    IF text = << >> THEN 0
    ELSE IF Head(text) >= Text_width(Tail(text))
         THEN Head(text)
         ELSE Text_width(Tail(text))

\* for k = 1..9, the smallest n for which (n as f32).log10() is k or more.
\* The number is rounded to 32-bit floating point (99999941 to 99999944,
\* 999998816 to 999998848) and so is its logarithm, which for a number just
\* below 10^7, 10^8 or 10^9 comes out as 7, 8 or 9; the steps are those of
\* the x86_64 linux build
Log10Steps ==
    <<10, 100, 1000, 10000, 100000, 1000000, 9999995, 99999941, 999998816>>

\* (n as f32).log10().floor() as u16; the logarithm of 0 is minus infinity,
\* which the cast takes to 0
f32_log10_floor(n) ==
    Cardinality({k \in 1..Len(Log10Steps) : Log10Steps[k] <= n})

\* the layout of draw: a gutter for the largest line number, one column of
\* space, and the text area in what is left of the area
TextArea(text_height, area) ==
    [width |-> saturating_sub(area.width, f32_log10_floor(text_height) + 1 + 1),
     height |-> area.height]

\* Draw::draw for TextWindow: the sizes of the text and of the text area are
\* stored and the scroll state is clamped to them
TextWindow_draw(self, text, area) ==
    TextWindow_clamp_scroll(
        [self EXCEPT
            !.text_width = Text_width(text),
            !.text_height = Text_height(text),
            !.window_width = TextArea(Text_height(text), area).width,
            !.window_height = TextArea(Text_height(text), area).height])

\* the texts drawn: no line, or up to MaxTextSize lines of which the first
\* is the widest
Texts ==
    {<< >>} \cup {[k \in 1..h |-> IF k = 1 THEN w ELSE 0] :
                     h \in 1..MaxTextSize, w \in 0..MaxTextSize}

\* the areas given to the window; two columns go to gutter and space
Areas ==
    {[width |-> w, height |-> h] :
        w \in 0..(MaxAreaSize + 2), h \in 0..MaxAreaSize}

\* the window is drawn
Draw(text, area) ==
    /\ window' = TextWindow_draw(window, text, area)
    /\ lastEvent' =
          [kind |-> "draw",
           clamped |-> \/ window'.offset_x < window.offset_x
                       \/ window'.offset_y < window.offset_y]
    /\ UNCHANGED notTextWindowVars

\* the window gets an event
Update(action) ==
    /\ window' = TextWindow_update(window, action).self
    /\ lastEvent' = [kind |-> "update", action |-> action,
                     update |-> TextWindow_update(window, action).update]
    /\ UNCHANGED notTextWindowVars

TextWindowInit ==
    /\ window = TextWindow_default
    /\ lastEvent = [kind |-> "none"]

-----------------------------------------------------------------------------
(* StateCell: src/tui/view/state.rs *)

\* the keys of the cell
Keys == {"k1", "k2", "k3", "k4"}

\* StateCell::default
StateCell_default == None

\* mutant of StateCell::get_or_update: the key is not looked at
StateCell_get_or_update_AnyKey(self, key, init) ==
    IF self.some
    THEN [self |-> self, ref |-> self.val[2], init_called |-> FALSE]
    ELSE [self |-> Some(<<key, init>>), ref |-> init, init_called |-> TRUE]

\* StateCell::get_or_update: the cell afterwards, the value the returned Ref
\* points to, and whether init was called; `init` is the value init() makes
StateCell_get_or_update(self, key, init) ==
    IF self.some /\ self.val[1] = key
    THEN [self |-> self, ref |-> self.val[2], init_called |-> FALSE]
    ELSE [self |-> Some(<<key, init>>), ref |-> init, init_called |-> TRUE]

\* StateCell::get_mut
StateCell_get_mut(self) ==
    IF self.some THEN Some(self.val[2]) ELSE None

\* the value the n-th run of an init closure makes
NewValue(n) == [init |-> n, edits |-> 0]

\* RefCell::borrow_mut, the first statement of get_or_update: it panics
\* ("already borrowed") while a Ref into the cell is alive
RefCell_borrow_mut(refs) == IF refs = 0 THEN Ok("RefMut") ELSE Err

\* get_or_update is called with a key; the caller keeps the returned Ref or
\* lets it go at once
GetOrUpdate(key, keep) ==
    /\ lastCall.fn # "panic"
    /\ IF RefCell_borrow_mut(borrows).ok
       THEN LET call ==
                   StateCell_get_or_update(cell, key, NewValue(inits + 1))
            IN  /\ call.init_called => inits < MaxInits
                /\ cell' = call.self
                /\ inits' = IF call.init_called THEN inits + 1 ELSE inits
                /\ lastCall' = [fn |-> "get_or_update", key |-> key,
                                init_called |-> call.init_called,
                                ref |-> call.ref]
                /\ borrows' = IF keep THEN borrows + 1 ELSE borrows
       ELSE /\ lastCall' = [fn |-> "panic", key |-> key]
            /\ UNCHANGED <<cell, inits, borrows>>
    /\ UNCHANGED notStateCellVars

\* a Ref returned by get_or_update goes out of scope
DropRef ==
    /\ lastCall.fn # "panic"
    /\ borrows > 0
    /\ borrows' = borrows - 1
    /\ lastCall' = [fn |-> "drop"]
    /\ UNCHANGED <<cell, inits, notStateCellVars>>

\* get_mut is called and the value is changed through the reference; it
\* takes &mut self, so no Ref is alive
GetMut ==
    /\ lastCall.fn # "panic"
    /\ borrows = 0
    /\ LET value == StateCell_get_mut(cell)
       IN  IF value.some /\ value.val.edits < MaxEdits
           THEN cell' = Some(<<cell.val[1],
                               [value.val EXCEPT !.edits = @ + 1]>>)
           ELSE cell' = cell
    /\ lastCall' = [fn |-> "get_mut", some |-> StateCell_get_mut(cell).some]
    /\ UNCHANGED <<inits, borrows, notStateCellVars>>

StateCellInit ==
    /\ cell = StateCell_default
    /\ inits = 0
    /\ lastCall = [fn |-> "none"]
    /\ borrows = 0

-----------------------------------------------------------------------------
(* StatefulSelect: src/tui/view/state.rs and src/tui/state/ui.rs *)

\* the types with FixedSelect of the view (state.rs): a number of variants,
\* one of which is Default::default(); variants are numbered from 0 in the
\* order of T::iter()
ViewSelectTypes ==
    UNION {{[module |-> "view", variants |-> n, default |-> d] :
               d \in 0..(n - 1)} : n \in 1..MaxValues}

\* the types with FixedSelect of ui.rs: PrimaryPane, RequestTab, ResponseTab
PrimaryPane == [module |-> "state", variants |-> 4, DEFAULT_INDEX |-> 1]
RequestTab == [module |-> "state", variants |-> 3, DEFAULT_INDEX |-> 0]
ResponseTab == [module |-> "state", variants |-> 2, DEFAULT_INDEX |-> 0]

\* T::iter(): the variants in order
IntoEnumIterator_iter(T) == [k \in 1..T.variants |-> k - 1]

\* usize::checked_sub
checked_sub(a, b) == IF a >= b THEN Some(a - b) ELSE None

\* Itertools::find_position: the index of the first value that matches
find_position(values, value) ==
    IF \E k \in 1..Len(values) : values[k] = value
    THEN Some(CHOOSE k \in 0..(Len(values) - 1) :
                /\ values[k + 1] = value
                /\ \A j \in 0..(k - 1) : values[j + 1] # value)
    ELSE None

\* StatefulSelect::new (state.rs): the index of the default value; the
\* unwrap panics when T::iter() does not yield it
StatefulSelect_new(T) ==
    IF find_position(IntoEnumIterator_iter(T), T.default).some
    THEN Ok([T |-> T,
             selected_index |->
                 find_position(IntoEnumIterator_iter(T), T.default).val])
    ELSE Err

\* StatefulSelect::selected_index (state.rs)
StatefulSelect_selected_index(self) == self.selected_index

\* StatefulSelect::selected (state.rs): T::iter().nth(selected_index), which
\* panics when there is no such variant
StatefulSelect_selected(self) ==
    IF self.selected_index < Len(IntoEnumIterator_iter(self.T))
    THEN Ok(IntoEnumIterator_iter(self.T)[self.selected_index + 1])
    ELSE Err

\* mutant of StatefulSelect::previous (state.rs): stops at the first value
StatefulSelect_previous_NoWrap(self) ==
    [self |-> [self EXCEPT !.selected_index =
                  IF self.selected_index = 0 THEN 0
                  ELSE self.selected_index - 1],
     changed |-> self.selected_index # 0]

\* StatefulSelect::previous (state.rs): the select afterwards and whether the
\* selection changed
StatefulSelect_previous(self) ==
    LET old == self.selected_index
        new == IF checked_sub(self.selected_index, 1).some
               THEN checked_sub(self.selected_index, 1).val
               ELSE Len(IntoEnumIterator_iter(self.T)) - 1
    IN  [self |-> [self EXCEPT !.selected_index = new],
         changed |-> old # new]

\* mutant of StatefulSelect::next (state.rs): always reports a change
StatefulSelect_next_AlwaysChanged(self) ==
    [self |-> [self EXCEPT !.selected_index =
                  (self.selected_index + 1)
                      % Len(IntoEnumIterator_iter(self.T))],
     changed |-> TRUE]

\* StatefulSelect::next (state.rs)
StatefulSelect_next(self) ==
    LET old == self.selected_index
        new == (self.selected_index + 1) % Len(IntoEnumIterator_iter(self.T))
    IN  [self |-> [self EXCEPT !.selected_index = new],
         changed |-> old # new]

\* StatefulSelect::new (ui.rs): the values collected, DEFAULT_INDEX selected;
\* it panics for a type without values
ui_StatefulSelect_new(T) ==
    IF IntoEnumIterator_iter(T) = << >> THEN Err
    ELSE Ok([T |-> T,
             values |-> IntoEnumIterator_iter(T),
             selected |-> T.DEFAULT_INDEX])

\* StatefulSelect::selected_index (ui.rs)
ui_StatefulSelect_selected_index(self) == self.selected

\* StatefulSelect::selected (ui.rs): values[selected], which panics when the
\* index is out of bounds
ui_StatefulSelect_selected(self) ==
    IF self.selected < Len(self.values)
    THEN Ok(self.values[self.selected + 1])
    ELSE Err

\* StatefulSelect::previous (ui.rs)
ui_StatefulSelect_previous(self) ==
    [self EXCEPT !.selected =
        IF checked_sub(self.selected, 1).some
        THEN checked_sub(self.selected, 1).val
        ELSE Len(self.values) - 1]

\* StatefulSelect::next (ui.rs)
ui_StatefulSelect_next(self) ==
    [self EXCEPT !.selected = (self.selected + 1) % Len(self.values)]

\* the types a select is made for
SelectTypes == ViewSelectTypes \cup {PrimaryPane, RequestTab, ResponseTab}

NoSelect == [T |-> [module |-> "none"]]

\* of either StatefulSelect: the index selected, the item selected
SelectedIndex(self) ==
    IF self.T.module = "view" THEN StatefulSelect_selected_index(self)
    ELSE ui_StatefulSelect_selected_index(self)

SelectedItem(self) ==
    IF self.T.module = "view" THEN StatefulSelect_selected(self)
    ELSE ui_StatefulSelect_selected(self)

\* the latest calls, at most as many as the largest type has values
Remember(calls_, call) ==
    IF Len(calls_) < MaxValues THEN Append(calls_, call)
    ELSE Append(Tail(calls_), call)

\* a select is made
SelectNew(T) ==
    /\ select = NoSelect
    /\ LET made == IF T.module = "view" THEN StatefulSelect_new(T)
                   ELSE ui_StatefulSelect_new(T)
       IN  /\ made.ok
           /\ select' = made.val
    /\ selectCalls' = << >>
    /\ UNCHANGED notSelectVars

\* next() is called
SelectNext ==
    /\ select # NoSelect
    /\ IF select.T.module = "view"
       THEN /\ select' = StatefulSelect_next(select).self
            /\ selectCalls' =
                  Remember(selectCalls,
                           [fn |-> "next", from |-> SelectedIndex(select),
                            changed |-> StatefulSelect_next(select).changed])
       ELSE /\ select' = ui_StatefulSelect_next(select)
            /\ selectCalls' =
                  Remember(selectCalls,
                           [fn |-> "next", from |-> SelectedIndex(select),
                            changed |-> "unit"])
    /\ UNCHANGED notSelectVars

\* previous() is called
SelectPrevious ==
    /\ select # NoSelect
    /\ IF select.T.module = "view"
       THEN /\ select' = StatefulSelect_previous(select).self
            /\ selectCalls' =
                  Remember(selectCalls,
                           [fn |-> "previous", from |-> SelectedIndex(select),
                            changed |->
                                StatefulSelect_previous(select).changed])
       ELSE /\ select' = ui_StatefulSelect_previous(select)
            /\ selectCalls' =
                  Remember(selectCalls,
                           [fn |-> "previous", from |-> SelectedIndex(select),
                            changed |-> "unit"])
    /\ UNCHANGED notSelectVars

StatefulSelectInit ==
    /\ select = NoSelect
    /\ selectCalls = << >>

-----------------------------------------------------------------------------
(* StatefulList: src/tui/view/state.rs and, line for line, src/tui/state/ui.rs *)

\* ListState::select
ListState_select(state, index) == [state EXCEPT !.selected = index]

\* ListState::default
ListState_default == [selected |-> None]

\* mutant of StatefulList::with_items: nothing is pre-selected
StatefulList_with_items_Unselected(items) ==
    [state |-> ListState_default, items |-> items]

\* StatefulList::with_items
StatefulList_with_items(items) ==
    [state |-> IF items # << >>
               THEN ListState_select(ListState_default, Some(0))
               ELSE ListState_default,
     items |-> items]

\* Vec::get
Vec_get(items, index) ==
    IF index >= 0 /\ index < Len(items)
    THEN Some(items[index + 1])
    ELSE None

\* StatefulList::selected
StatefulList_selected(self) ==
    IF self.state.selected.some
    THEN Vec_get(self.items, self.state.selected.val)
    ELSE None

\* StatefulList::previous; `items.len() - 1` below zero panics in a build
\* with overflow checks and wraps around to usize::MAX in one without
StatefulList_previous(self, overflow_checks) ==
    IF self.state.selected.some
    THEN IF self.state.selected.val = 0
         THEN IF Len(self.items) >= 1
              THEN Ok([self EXCEPT !.state =
                          ListState_select(@, Some(Len(self.items) - 1))])
              ELSE IF overflow_checks THEN Err
                   ELSE Ok([self EXCEPT !.state =
                               ListState_select(@, Some(usize_MAX))])
         ELSE Ok([self EXCEPT !.state =
                     ListState_select(@, Some(self.state.selected.val - 1))])
    ELSE Ok([self EXCEPT !.state = ListState_select(@, Some(0))])

\* StatefulList::next; `i + 1` above usize::MAX panics or wraps around to 0
\* as the build has it, and `% items.len()` panics for an empty list; below
\* usize::MAX, (i + 1) % len is taken as ((i % len) + 1) % len
StatefulList_next(self, overflow_checks) ==
    IF self.state.selected.some
    THEN IF self.state.selected.val = usize_MAX /\ overflow_checks THEN Err
         ELSE IF Len(self.items) = 0 THEN Err
         ELSE Ok([self EXCEPT !.state =
                     ListState_select(@,
                         Some(IF self.state.selected.val = usize_MAX
                              THEN 0
                              ELSE (usize_rem(self.state.selected.val,
                                              Len(self.items)) + 1)
                                       % Len(self.items)))])
    ELSE Ok([self EXCEPT !.state = ListState_select(@, Some(0))])

\* RefCell::borrow, the first step of selected(): it panics while the guard
\* of state_mut() is alive
RefCell_borrow(writing) == IF writing THEN Err ELSE Ok("Ref")

\* the selections a caller makes through state_mut(): none, an index of a
\* list, an index past the end of every list, and the two largest indexes
SelectableIndexes ==
    {None} \cup {Some(k) : k \in 0..(MaxItems + 1)}
           \cup {Some(usize_MAX), Some(usize_MAX - 1)}

\* how many calls of previous() on an index in the upper half of usize a
\* behaviour holds
MaxCountdown == 4

\* `guard` tells whether a guard of state_mut() is alive, `plain` whether
\* the list has seen nothing but with_items, next, previous and selected,
\* `countdown` how many calls of previous() found an index in the upper half
\* of usize
NoList == [made |-> FALSE]

\* a list is made of n items, in a build with or without overflow checks
ListWithItems(n, overflow_checks) ==
    /\ ~list.made
    /\ list' = [made |-> TRUE, overflow_checks |-> overflow_checks,
                self |-> StatefulList_with_items([k \in 1..n |-> k]),
                guard |-> FALSE, plain |-> TRUE, countdown |-> 0]
    /\ listCall' = [fn |-> "with_items", aborted |-> FALSE]
    /\ UNCHANGED notListVars

\* next() is called; it takes &mut self, so no guard is alive
ListNext ==
    /\ list.made
    /\ ~listCall.aborted
    /\ ~list.guard
    /\ LET result == StatefulList_next(list.self, list.overflow_checks)
       IN  /\ list' = IF result.ok THEN [list EXCEPT !.self = result.val]
                      ELSE list
           /\ listCall' = [fn |-> "next", from |-> list.self.state.selected,
                           aborted |-> ~result.ok]
    /\ UNCHANGED notListVars

\* previous() is called; it takes &mut self, so no guard is alive; the calls
\* that find an index in the upper half of usize are counted
ListPrevious ==
    /\ list.made
    /\ ~listCall.aborted
    /\ ~list.guard
    /\ LET high == /\ list.self.state.selected.some
                   /\ ~usize_le(list.self.state.selected.val, 2147483647)
           result == StatefulList_previous(list.self, list.overflow_checks)
       IN  /\ high => list.countdown < MaxCountdown
           /\ list' = IF result.ok
                      THEN [list EXCEPT !.self = result.val,
                                        !.countdown = IF high THEN @ + 1 ELSE @]
                      ELSE list
           /\ listCall' = [fn |-> "previous",
                           from |-> list.self.state.selected,
                           aborted |-> ~result.ok]
    /\ UNCHANGED notListVars

\* selected() is called
ListSelected ==
    /\ list.made
    /\ ~listCall.aborted
    /\ listCall' = IF RefCell_borrow(list.guard).ok
                   THEN [fn |-> "selected", aborted |-> FALSE,
                         item |-> StatefulList_selected(list.self)]
                   ELSE [fn |-> "selected", aborted |-> TRUE]
    /\ UNCHANGED <<list, notListVars>>

\* state_mut() is called and its guard kept; a second guard cannot be had
ListStateMut ==
    /\ list.made
    /\ ~listCall.aborted
    /\ IF RefCell_borrow_mut(IF list.guard THEN 1 ELSE 0).ok
       THEN /\ list' = [list EXCEPT !.guard = TRUE, !.plain = FALSE]
            /\ listCall' = [fn |-> "state_mut", aborted |-> FALSE]
       ELSE /\ list' = list
            /\ listCall' = [fn |-> "state_mut", aborted |-> TRUE]
    /\ UNCHANGED notListVars

\* the holder of the guard selects through it
ListGuardSelect(index) ==
    /\ list.made
    /\ ~listCall.aborted
    /\ list.guard
    /\ list' = [list EXCEPT !.self.state = ListState_select(@, index)]
    /\ listCall' = [fn |-> "select", from |-> list.self.state.selected,
                    aborted |-> FALSE]
    /\ UNCHANGED notListVars

\* the guard of state_mut() goes out of scope
ListGuardDrop ==
    /\ list.made
    /\ ~listCall.aborted
    /\ list.guard
    /\ list' = [list EXCEPT !.guard = FALSE]
    /\ listCall' = [fn |-> "drop", aborted |-> FALSE]
    /\ UNCHANGED notListVars

\* the owner of the list takes the last item off the public field `items`
\* (Vec::pop); the selection stays as it is
ListItemsPop ==
    /\ list.made
    /\ ~listCall.aborted
    /\ ~list.guard
    /\ list' = [list EXCEPT
                   !.self.items = SubSeq(@, 1, saturating_sub(Len(@), 1)),
                   !.plain = FALSE]
    /\ listCall' = [fn |-> "items.pop", from |-> Len(list.self.items),
                    aborted |-> FALSE]
    /\ UNCHANGED notListVars

\* the owner of the list empties `items` (Vec::clear)
ListItemsClear ==
    /\ list.made
    /\ ~listCall.aborted
    /\ ~list.guard
    /\ list' = [list EXCEPT !.self.items = << >>, !.plain = FALSE]
    /\ listCall' = [fn |-> "items.clear", from |-> Len(list.self.items),
                    aborted |-> FALSE]
    /\ UNCHANGED notListVars

StatefulListInit ==
    /\ list = NoList
    /\ listCall = [fn |-> "none", aborted |-> FALSE]

-----------------------------------------------------------------------------
(* Stored records read back: src/http/record.rs, mod serde_* *)

\* method texts found in a store: a standard method, two extension methods,
\* the empty text and a text with a space
StoredMethods == {"GET", "PURGE", "get", "", "G T"}

\* status numbers found in a store, around the ends of the range of codes
StoredStatuses == {0, 99, 100, 200, 999, 1000}

\* header names and values found in a store: a name with upper case, names
\* that are no tokens (empty, with a space), a value with a line feed
StoredHeaderNames == HeaderNames \cup {"Accept", "", "bad name"}
StoredHeaderValues == HeaderValues \cup {<<10>>}

\* IndexMap<String, Vec<u8>> as read from a store: every key once
StoredHeaderMaps ==
    {map \in UNION {[1..k -> StoredHeaderNames \X StoredHeaderValues] :
                       k \in 0..MaxHeaders} :
        \A i, j \in 1..Len(map) : map[i][1] = map[j][1] => i = j}

\* what serialization writes for the request and response records there are
SerializedRequests ==
    {RequestRecord_serialize(
         [id |-> 1, profile_id |-> None, recipe_id |-> "r1",
          method |-> method,
          url |-> [serialization |-> "http://localhost/url"],
          headers |-> HeaderMap_from_iter(entries),
          body |-> Some(<<65>>)]) :
        method \in TransportMethods, entries \in HeaderEntries}

SerializedResponses ==
    {ResponseRecord_serialize(
         [status |-> status,
          headers |-> HeaderMap_from_iter(entries),
          body |-> ResponseBody_new(<<65>>)]) :
        status \in ResponseStatuses, entries \in HeaderEntries}

\* the stored forms read: those serialization wrote and those with fields
\* from elsewhere
StoredRequests ==
    SerializedRequests \cup
    {[id |-> 1, profile_id |-> None, recipe_id |-> "r1",
      method |-> method, url |-> "http://localhost/url",
      headers |-> headers, body |-> Some(<<65>>)] :
        method \in StoredMethods, headers \in StoredHeaderMaps}

StoredResponses ==
    SerializedResponses \cup
    {[status |-> status, headers |-> headers, body |-> <<65>>] :
        status \in StoredStatuses, headers \in StoredHeaderMaps}

NotDecoded == [kind |-> "none"]

\* a stored request record is deserialized, by a deserializer that lends
\* the texts or by one that does not
ReadRequest(data, lends) ==
    /\ decoded' = [kind |-> "request", data |-> data, lends |-> lends,
                   result |-> RequestRecord_deserialize(data, lends)]
    /\ UNCHANGED notDecodeVars

\* a stored response record is deserialized
ReadResponse(data) ==
    /\ decoded' = [kind |-> "response", data |-> data,
                   result |-> ResponseRecord_deserialize(data)]
    /\ UNCHANGED notDecodeVars

StoredDataInit == decoded = NotDecoded

-----------------------------------------------------------------------------
(* Specifications *)

Init ==
    /\ LifecycleInit
    /\ OverridesInit
    /\ RequestInit
    /\ ResponseInit
    /\ AccessorInit
    /\ TextWindowInit
    /\ StateCellInit
    /\ StatefulSelectInit
    /\ StatefulListInit
    /\ StoredDataInit

\* the request lifecycle
Next ==
    \/ \E r \in Recipes : SendRequest(r)
    \/ \E i \in RequestIds : BuildFails(i)
    \/ \E i \in RequestIds : BuildSucceeds(i)
    \/ \E i \in RequestIds : TransportSucceeds(i)
    \/ \E i \in RequestIds : TransportFails(i)
    \/ Tick

Spec == Init /\ [][Next]_vars

\* the build overrides
NextOverrides ==
    \/ \E i \in Indexes, o \in BuildFieldOverride : OverridesInsert(i, o)
    \/ \E i \in Indexes, d \in Templates : OverridesGet(i, d)

SpecOverrides == Init /\ [][NextOverrides]_vars

\* the request records: a record is made from a transport request, written
\* to the history and read back
NextRequestRecord ==
    \/ /\ ~built.built
       /\ \E seed \in SampleSeeds, profile_id \in Profiles,
             method \in TransportMethods, entries \in HeaderEntries,
             body \in TransportBodies, max_body_size \in 0..MaxCeiling :
            NewRecord(seed,
                      profile_id,
                      [method |-> method,
                       url |-> [serialization |-> "http://localhost/url"],
                       headers |-> HeaderMap_from_iter(entries),
                       body |-> body],
                      max_body_size)
    \/ PersistRecord
    \/ \E lends \in BOOLEAN : LoadRecord(lends)

SpecRequestRecord == Init /\ [][NextRequestRecord]_vars

\* the response records: a response is received and its body parsed
NextResponseRecord ==
    \/ \E status \in ResponseStatuses, entries \in ResponseHeaderEntries,
          data \in ByteStrings(MaxBodyLen) :
         ResponseReceived(status, HeaderMap_from_iter(entries), data)
    \/ \E content \in ParsedContents : SetParsedBody(content)
    \/ PersistResponse
    \/ LoadResponse

SpecResponseRecord == Init /\ [][NextResponseRecord]_vars

\* the accessors of the records: one of them is called on a record
NextAccessors ==
    \/ /\ queried = NotQueried
       /\ \E disposition \in Dispositions,
             content_type \in ContentTypeSamples :
            FileName(disposition, content_type)
    \/ /\ queried = NotQueried
       /\ \E parsed \in {None} \cup {Some(content) : content \in ParsedContents},
             content_type \in ContentTypeSamples :
            ContentTypeOf(parsed, content_type)
    \/ /\ queried = NotQueried
       /\ \E sample \in BodySamples : ResponseText(sample)
    \/ /\ queried = NotQueried
       /\ \E sample \in BodySamples : DebugBody(sample)
    \/ /\ queried = NotQueried
       /\ \E method \in TransportMethods, entries \in CurlHeaderEntries,
             body \in BodyOptions :
            ToCurl(method, entries, body)
    \/ /\ queried = NotQueried
       /\ \E body \in BodyOptions : BodyStr(body)

SpecAccessors == Init /\ [][NextAccessors]_vars

\* a text window is drawn and gets events, in any order
NextTextWindow ==
    \/ \E text \in Texts, area \in Areas : Draw(text, area)
    \/ \E action \in Actions : Update(action)

SpecTextWindow == Init /\ [][NextTextWindow]_vars

\* a state cell is asked for its value under changing keys
NextStateCell ==
    \/ \E key \in Keys, keep \in BOOLEAN : GetOrUpdate(key, keep)
    \/ DropRef
    \/ GetMut

SpecStateCell == Init /\ [][NextStateCell]_vars

\* a select is made for a type and cycled through
NextStatefulSelect ==
    \/ \E T \in SelectTypes : SelectNew(T)
    \/ SelectNext
    \/ SelectPrevious

SpecStatefulSelect == Init /\ [][NextStatefulSelect]_vars

\* a list is made, its selection moved by the list and by its callers, its
\* items taken away
NextStatefulList ==
    \/ \E n \in 0..MaxItems, overflow_checks \in BOOLEAN :
         ListWithItems(n, overflow_checks)
    \/ ListNext
    \/ ListPrevious
    \/ ListSelected
    \/ ListStateMut
    \/ \E index \in SelectableIndexes : ListGuardSelect(index)
    \/ ListGuardDrop
    \/ ListItemsPop
    \/ ListItemsClear

SpecStatefulList == Init /\ [][NextStatefulList]_vars

\* stored records are read back, one in a behaviour
NextStoredData ==
    \/ /\ decoded = NotDecoded
       /\ \E data \in StoredRequests, lends \in BOOLEAN :
             ReadRequest(data, lends)
    \/ /\ decoded = NotDecoded
       /\ \E data \in StoredResponses : ReadResponse(data)

SpecStoredData == Init /\ [][NextStoredData]_vars

-----------------------------------------------------------------------------
(* Properties of the request lifecycle (specification Spec) *)

\* the state the view stores for request i, NoState when it stores none
StoredFor(i) ==
    IF \E r \in Recipes : slots[r] # NoState /\ RequestState_id(slots[r]) = i
    THEN slots[CHOOSE r \in Recipes :
                   slots[r] # NoState /\ RequestState_id(slots[r]) = i]
    ELSE NoState

\* the changes of state of one request
LifecycleStep(from, to) ==
    \/ from = "Building" /\ to \in {"BuildError", "Loading"}
    \/ from = "Loading" /\ to \in {"Response", "RequestError"}

\* the complete lifecycles
Lifecycles ==
    {<<"Building", "BuildError">>,
     <<"Building", "Loading", "Response">>,
     <<"Building", "Loading", "RequestError">>}

IsLifecyclePrefix(kinds) ==
    \E path \in Lifecycles :
        /\ Len(kinds) <= Len(path)
        /\ \A k \in 1..Len(kinds) : kinds[k] = path[k]

\* the place of request i in the order of the launches
LaunchOf(i) == CHOOSE a \in 1..Len(issued) : issued[a] = i

\* request i has been superseded: a later request was launched for its recipe
Superseded(i) ==
    \E j \in RequestIds :
        /\ tasks[j].pc # "idle"
        /\ LaunchOf(j) > LaunchOf(i)
        /\ tasks[j].seed.recipe_id = tasks[i].seed.recipe_id

\* the request whose Building state was last put in the slot of a recipe
SlotSeed(recipe_id) ==
    CHOOSE i \in RequestIds :
        /\ tasks[i].pc # "idle"
        /\ tasks[i].seed.recipe_id = recipe_id
        /\ \A j \in RequestIds :
              (tasks[j].pc # "idle" /\ tasks[j].seed.recipe_id = recipe_id)
                  => LaunchOf(j) <= LaunchOf(i)

\* C1: the state stored for one request identifier changes only along
\* Building->BuildError, Building->Loading, Loading->Response and
\* Loading->RequestError. A state is stored for an identifier for the first
\* time as Building; BuildError, Response and RequestError never change (the
\* only thing that happens to them, as to any state, is that the slot is taken
\* by the Building state of a newer request and the old state is dropped).
C1_TransitionStep(i) ==
    LET from == StoredFor(i)
        to == StoredFor(i)'
    IN  from # to =>
          \/ /\ from = NoState
             /\ to.kind = "Building"
             /\ observed[i] = << >>
          \/ /\ to = NoState
             /\ \E r \in Recipes :
                   /\ slots[r] = from
                   /\ slots'[r].kind = "Building"
                   /\ RequestState_id(slots'[r]) # i
          \/ /\ from # NoState
             /\ to # NoState
             /\ LifecycleStep(from.kind, to.kind)

C1_TransitionOrder == [][\A i \in RequestIds : C1_TransitionStep(i)]_vars

\* C1 witness: one request has reached Response and another RequestError or
\* BuildError, so every kind of transition has been taken
C1_Witness ==
    /\ \E i \in RequestIds : observed[i] = <<"Building", "Loading", "Response">>
    /\ \E i \in RequestIds : observed[i] = <<"Building", "Loading", "RequestError">>

\* C2: the first state a slot shows for an identifier is Building; a Loading
\* state is always preceded by a Building state of the same identifier.
C2_BuildingFirst ==
    \A i \in RequestIds :
        /\ observed[i] # << >> => observed[i][1] = "Building"
        /\ \A k \in 1..Len(observed[i]) :
              observed[i][k] = "Loading" =>
                  \E b \in 1..(k - 1) : observed[i][b] = "Building"
        /\ StoredFor(i) # NoState => observed[i] # << >>

\* C2 witness: a slot shows Loading
C2_Witness ==
    \E r \in Recipes :
        /\ slots[r].kind = "Loading"
        /\ "Loading" \in {observed[RequestState_id(slots[r])][k] :
                             k \in 1..Len(observed[RequestState_id(slots[r])])}

\* C3: when the slot of a recipe has been taken by a newer request, every
\* result the older task reports afterwards (build error, loading, response,
\* request error) is dropped: the step leaves every slot as it was.
C3_StaleStep(i) ==
    (/\ tasks[i].pc \in {"build", "send"}
     /\ tasks'[i] # tasks[i]
     /\ Superseded(i))
        => /\ slots' = slots
           /\ tasks'[i].stale

C3_StaleResultDropped == [][\A i \in RequestIds : C3_StaleStep(i)]_vars

\* C3 witness: a superseded task has run to its end, its reports were dropped,
\* and the slot holds the state of the newer request
C3_Witness ==
    \E i \in RequestIds :
        /\ tasks[i].pc = "done"
        /\ tasks[i].stale
        /\ tasks[i].last.kind \in {"Response", "RequestError"}
        /\ Superseded(i)
        /\ RequestState_id(slots[tasks[i].seed.recipe_id]) # i

\* C4: every identifier has a state slot of its own. A transition of the state
\* stored for request a leaves the state stored for every other request as it
\* was, and the states shown for a follow the lifecycle order.
C4_OwnSlotStep(a) ==
    /\ (/\ StoredFor(a) # NoState
        /\ StoredFor(a)' # NoState
        /\ StoredFor(a)' # StoredFor(a))
          => \A b \in RequestIds \ {a} : StoredFor(b)' = StoredFor(b)
    /\ IsLifecyclePrefix(observed'[a])

C4_OwnSlot == [][\A a \in RequestIds : C4_OwnSlotStep(a)]_vars

\* C4 witness: two requests are in flight at the same time in two slots, and
\* one of them has already moved on from Building
C4_Witness ==
    \E a, b \in RequestIds :
        /\ a # b
        /\ StoredFor(a).kind = "Loading"
        /\ StoredFor(b).kind \in {"Building", "Loading"}
        /\ tasks[a].pc = "send"
        /\ tasks[b].pc \in {"build", "send"}

\* C5: the identifier given at Building is retained: the record built for a
\* request, every state its task constructs and the state in its slot all
\* carry the identifier of the seed.
C5_IdRetained ==
    /\ \A i \in RequestIds :
          tasks[i].pc # "idle" =>
              /\ tasks[i].seed.id = i
              /\ RequestState_id(tasks[i].last) = tasks[i].seed.id
              /\ tasks[i].pc = "send" => tasks[i].record.id = tasks[i].seed.id
    /\ \A r \in Recipes :
          slots[r] # NoState => RequestState_id(slots[r]) = SlotSeed(r)

\* C5 witness: a task has ended with a build error, one with a request error
\* and a slot holds a response
C5_Witness ==
    /\ \E i \in RequestIds :
          tasks[i].pc = "done" /\ tasks[i].last.kind \in {"BuildError", "RequestError"}
    /\ \E r \in Recipes : slots[r].kind = "Response"

-----------------------------------------------------------------------------
(* Properties of the response records (specification SpecResponseRecord) *)

\* C6: the parsed-body slot of a response body is filled once: a
\* set_parsed_body on a record that already has a parsed body leaves the
\* parsed body that is attached.
C6_ParsedBodyFillOnce ==
    [][(received.received /\ ResponseBody_parsed(received.record.body).some)
          => ResponseBody_parsed(received'.record.body)
                = ResponseBody_parsed(received.record.body)]_vars

\* the response record without its parsed body
WithoutParsed(record) == [record EXCEPT !.body.parsed = None]

\* C11: the parsed body is never persisted. A response record serializes to
\* the same value and compares equal with and without a parsed body, whatever
\* the parsed body is; what was written to the history is the serialized
\* record without parsed body; a record read back has no parsed body.
C11_ParsedNotPersisted ==
    /\ received.received =>
          \A content \in ParsedContents :
              LET with == ResponseRecord_set_parsed_body(received.record,
                                                         content)
                  without == WithoutParsed(received.record)
              IN  /\ ResponseRecord_serialize(with)
                        = ResponseRecord_serialize(without)
                  /\ ResponseRecord_eq(with, without)
                  /\ ResponseRecord_eq(received.record, without)
    /\ persisted.stored =>
          persisted.data
              = ResponseRecord_serialize(WithoutParsed(received.record))
    /\ restored.loaded =>
          /\ restored.result.ok
          /\ ResponseBody_parsed(restored.result.val.body) = None
          /\ restored.result.val.body.data = received.record.body.data

\* C11 witness: a record with a parsed body attached was written to the
\* history and read back
C11_Witness ==
    /\ received.received
    /\ ResponseBody_parsed(received.record.body) # None
    /\ persisted.stored
    /\ persisted.data = ResponseRecord_serialize(received.record)
    /\ restored.loaded
    /\ restored.result.ok
    /\ received.record.body.data # << >>

-----------------------------------------------------------------------------
(* Properties of the build overrides (specification SpecOverrides) *)

\* every override map over the indexes
OverrideMaps == UNION {[D -> BuildFieldOverride] : D \in SUBSET Indexes}

\* two maps have the same entry, or none, at an index
SameEntryAt(m1, m2, index) ==
    /\ index \in DOMAIN m1 <=> index \in DOMAIN m2
    /\ index \in DOMAIN m1 => m1[index] = m2[index]

\* C7: get(i, default) is the default when the map has no entry at i, the
\* overriding value when Override(v) is stored at i and None when Omit is
\* stored at i; the entries at the other indexes do not change the result.
C7_GetResolves ==
    lookup.called =>
        LET i == lookup.index
            d == lookup.default
            res == lookup.result
        IN  /\ i \notin DOMAIN overrides => res = Some(d)
            /\ (i \in DOMAIN overrides /\ overrides[i] = Omit) => res = None
            /\ \A v \in Templates :
                  (i \in DOMAIN overrides /\ overrides[i] = Override(v))
                      => res = Some(v)
            /\ \A m \in OverrideMaps :
                  SameEntryAt(m, overrides, i)
                      => BuildFieldOverrides_get(m, i, d) = res

\* C7 witness: get was called for an omitted field while another index is
\* overridden with a value
C7_Witness ==
    /\ lookup.called
    /\ lookup.index \in DOMAIN overrides
    /\ overrides[lookup.index] = Omit
    /\ lookup.result = None
    /\ \E j \in DOMAIN overrides :
          j # lookup.index /\ overrides[j] = Override("edited")

-----------------------------------------------------------------------------
(* Properties of the request records (specification SpecRequestRecord) *)

\* C8: the record keeps the body exactly when the transport request has an
\* in-memory body whose length is at most the ceiling; a streaming body and a
\* missing body give a record without body.
C8_BodyCapture ==
    built.built =>
        LET body == built.request.body
        IN  /\ built.record.body.some <=>
                  (/\ body.some
                   /\ body.val.kind = "Bytes"
                   /\ Len(body.val.data) <= built.max_body_size)
            /\ (~body.some \/ body.val.kind = "Stream")
                  => built.record.body = None

\* C8 witness: a body of exactly the ceiling was retained
C8_Witness ==
    /\ built.built
    /\ built.request.body.some
    /\ built.request.body.val.kind = "Bytes"
    /\ Len(built.request.body.val.data) = built.max_body_size
    /\ built.max_body_size > 0
    /\ built.record.body.some

\* C9: the record is a copy of its inputs: method, URL and headers are those
\* of the transport request, a retained body is the request's bytes, id and
\* recipe id are the seed's and the profile id is the argument; the record
\* has no other field.
C9_CopiedVerbatim ==
    built.built =>
        /\ built.record.method = built.request.method
        /\ built.record.url = built.request.url
        /\ built.record.headers = built.request.headers
        /\ built.record.body.some =>
              /\ built.request.body.some
              /\ built.record.body.val = built.request.body.val.data
        /\ built.record.id = built.seed.id
        /\ built.record.recipe_id = built.seed.recipe_id
        /\ built.record.profile_id = built.profile_id
        /\ DOMAIN built.record =
              {"id", "profile_id", "recipe_id", "method", "url", "headers",
               "body"}

\* C9 witness: a record with a profile, two header values and a retained body
C9_Witness ==
    /\ built.built
    /\ built.profile_id = Some("p1")
    /\ HeaderMap_len(built.record.headers) = 2
    /\ built.record.body = Some(<<65, 255>>)
    /\ built.record.method = Method_PURGE

\* C10: a record read back from its persisted form equals the record that was
\* written, whatever its method, headers and body.
C10_RoundTrip ==
    loaded.loaded =>
        /\ loaded.result.ok
        /\ RequestRecord_eq(loaded.result.val, built.record)

-----------------------------------------------------------------------------
(* Times and durations of the request lifecycle (specification Spec) *)

\* every lifecycle state there is: the ones in the slots and the last one
\* each task has constructed (which a slot holds unless it was dropped)
LifecycleStates ==
    {slots[r] : r \in {q \in Recipes : slots[q] # NoState}}
        \cup {tasks[i].last : i \in {j \in RequestIds : tasks[j].pc # "idle"}}

\* the exchanges there are
Exchanges == {s.record : s \in {t \in LifecycleStates : t.kind = "Response"}}

\* C12: every exchange ends no earlier than it starts, so its duration is
\* never negative.
C12_EndAfterStart ==
    \A exchange \in Exchanges :
        /\ exchange.end_time >= exchange.start_time
        /\ Exchange_duration(exchange) >= 0

\* C13: the duration of an exchange is its end time minus its start time, and
\* a Response state reports the duration of the exchange it holds.
C13_DurationExact ==
    \A s \in LifecycleStates :
        s.kind = "Response" =>
            /\ Exchange_duration(s.record)
                  = s.record.end_time - s.record.start_time
            /\ RequestState_duration(s, now)
                  = Some(s.record.end_time - s.record.start_time)
            /\ RequestState_duration(s, now)
                  = Some(Exchange_duration(s.record))

\* C13 witness: a slot holds a response whose exchange took time
C13_Witness ==
    \E r \in Recipes :
        /\ slots[r].kind = "Response"
        /\ slots[r].record.end_time - slots[r].record.start_time = 1
        /\ RequestState_duration(slots[r], now) = Some(1)

\* C14: start_time() and duration() are absent in Building and BuildError and
\* in no other state; in Loading they are the time the state was made and the
\* time since then, in Response the start time and duration of the exchange,
\* in RequestError the start time of the error and its end time minus its
\* start time.
C14_TimesPresent ==
    \A s \in LifecycleStates :
        /\ (RequestState_start_time(s) = None)
              <=> s.kind \in {"Building", "BuildError"}
        /\ (RequestState_duration(s, now) = None)
              <=> s.kind \in {"Building", "BuildError"}
        /\ s.kind = "Loading" =>
              /\ RequestState_start_time(s) = Some(s.start_time)
              /\ RequestState_duration(s, now) = Some(now - s.start_time)
        /\ s.kind = "Response" =>
              /\ RequestState_start_time(s) = Some(s.record.start_time)
              /\ RequestState_duration(s, now)
                    = Some(Exchange_duration(s.record))
        /\ s.kind = "RequestError" =>
              /\ RequestState_start_time(s) = Some(s.error.start_time)
              /\ RequestState_duration(s, now)
                    = Some(s.error.end_time - s.error.start_time)

\* C14 witness: a build has failed after the clock moved, and a request has
\* failed in the transport after taking time
C14_Witness ==
    /\ \E s \in LifecycleStates :
          s.kind = "BuildError" /\ s.error.start_time > 0
    /\ \E s \in LifecycleStates :
          s.kind = "RequestError" /\ s.error.end_time > s.error.start_time

\* C15: while a slot stays in one Loading state, duration() is the clock
\* minus the start time; it is zero when the state is made and, over every
\* step in which the clock advances, it does not decrease and stays
\* non-negative; while a slot stays in one Response or RequestError state,
\* duration() gives the same value at every observation, whatever the clock
\* shows.
C15_DurationStep(r) ==
    /\ (slots'[r] # slots[r] /\ slots'[r].kind = "Loading") =>
          RequestState_duration(slots'[r], now') = Some(0)
    /\ slots'[r] = slots[r] =>
          /\ slots[r].kind = "Loading" =>
                /\ RequestState_duration(slots[r], now)
                      = Some(now - slots[r].start_time)
                /\ now' >= now =>
                      /\ RequestState_duration(slots[r], now').val
                            >= RequestState_duration(slots[r], now).val
                      /\ RequestState_duration(slots[r], now).val >= 0 =>
                            RequestState_duration(slots[r], now').val >= 0
          /\ slots[r].kind \in {"Response", "RequestError"} =>
                RequestState_duration(slots[r], now')
                    = RequestState_duration(slots[r], now)

-----------------------------------------------------------------------------
(* Responses, failures, tickets and identifiers (specification Spec) *)

\* C16: the pretty body of a Response state is computed once, when
\* RequestState::response makes the state: it is the prettified body of the
\* response the state holds, the body of a request is prettified at most
\* once, and as long as the slot holds the Response state nothing about the
\* state changes and nothing is prettified again.
C16_PrettyStep(r) ==
    slots'[r].kind = "Response" =>
        /\ slots'[r].pretty_body
              = Response_prettify_body(slots'[r].record.response)
        /\ calls'[RequestState_id(slots'[r])].prettified = 1
        /\ slots[r].kind = "Response" =>
              /\ slots'[r] = slots[r]
              /\ calls'[RequestState_id(slots[r])]
                    = calls[RequestState_id(slots[r])]

C16_PrettyOnce ==
    [][/\ \A r \in Recipes : C16_PrettyStep(r)
       /\ \A i \in RequestIds : calls'[i].prettified <= 1]_vars

\* C16 witness: a slot holds a Response state with a pretty body, and the
\* clock has moved on since the response arrived
C16_Witness ==
    \E r \in Recipes :
        /\ slots[r].kind = "Response"
        /\ slots[r].pretty_body = Some(BytesJson)
        /\ slots[r].record.end_time < now
        /\ calls[RequestState_id(slots[r])].prettified = 1

\* C17: a failure is not swallowed. When the build of the request that holds
\* a slot fails, the slot goes to BuildError with the identifier of that
\* request; when its transport fails, the slot goes to RequestError with the
\* record that was sent, the time it was launched and the time of the
\* failure. The slot is not left in Building or Loading.
C17_FailureStep(i) ==
    /\ (/\ tasks[i].pc = "build"
        /\ tasks'[i].pc = "done"
        /\ StoredFor(i) # NoState)
          => LET state == slots'[tasks[i].seed.recipe_id]
             IN  /\ state.kind = "BuildError"
                 /\ state.error.id = tasks[i].seed.id
                 /\ RequestState_id(state) = i
                 /\ state.error.recipe_id = tasks[i].seed.recipe_id
    /\ (/\ tasks[i].pc = "send"
        /\ tasks'[i].pc = "done"
        /\ tasks'[i].last.kind # "Response"
        /\ StoredFor(i) # NoState)
          => LET state == slots'[tasks[i].seed.recipe_id]
             IN  /\ state.kind = "RequestError"
                 /\ state.error.request = tasks[i].record
                 /\ state.error.start_time = tasks[i].start_time
                 /\ state.error.end_time = now
                 /\ RequestState_id(state) = i

C17_FailureShown == [][\A i \in RequestIds : C17_FailureStep(i)]_vars

\* C17 witness: one slot shows a build error and another a request error
\* that came after the request had been in flight for a while
C17_Witness ==
    /\ \E r \in Recipes : slots[r].kind = "BuildError"
    /\ \E r \in Recipes :
          /\ slots[r].kind = "RequestError"
          /\ slots[r].error.end_time > slots[r].error.start_time

\* C18: a body that does not parse is not a failure of the request.
\* RequestState::response gives a Response state for every response, with
\* the exchange as it was handed in and the raw body in it; the pretty body
\* is absent when the body does not parse, and present when it does. Every
\* response that arrived ended in a Response state.
C18_ParseFailureDegrades ==
    /\ \A i \in RequestIds :
          tasks[i].pc = "send" =>
              \A response \in LifecycleResponses :
                  LET exchange == Exchange_new(tasks[i].record, response,
                                               tasks[i].start_time, now)
                      state == RequestState_response(exchange)
                  IN  /\ state.kind = "Response"
                      /\ state.record = exchange
                      /\ state.record.response.body = response.body
                      /\ (state.pretty_body = None)
                            <=> (Response_parse_body(response) = None)
    /\ \A i \in RequestIds :
          calls[i].prettified > 0 =>
              /\ tasks[i].last.kind = "Response"
              /\ tasks[i].last.record.response \in LifecycleResponses

\* C18 witness: a slot holds the Response state of a response whose body
\* does not parse
C18_Witness ==
    \E r \in Recipes :
        /\ slots[r].kind = "Response"
        /\ Response_parse_body(slots[r].record.response) = None
        /\ slots[r].pretty_body = None
        /\ slots[r].record.response.body = BytesBinary

\* the request record made for request i, where there is one
HasRecord(i) ==
    \/ tasks[i].pc = "send"
    \/ tasks[i].pc = "done" /\ tasks[i].last.kind \in {"Response", "RequestError"}

RecordOf(i) ==
    CASE tasks[i].pc = "send" -> tasks[i].record
      [] tasks[i].last.kind = "Response" -> tasks[i].last.record.request
      [] tasks[i].last.kind = "RequestError" -> tasks[i].last.error.request

\* C19: a build makes one request record (and with it one transport request)
\* for its seed, and the ticket of a request is sent at most once: no
\* request has two records or two sends, a send comes after the record was
\* made, and no two requests have records with the same identifier.
C19_OneRecordOneSend ==
    /\ \A i \in RequestIds :
          /\ calls[i].records <= 1
          /\ calls[i].sends <= calls[i].records
          /\ tasks[i].pc \in {"idle", "build"} => calls[i].records = 0
          /\ tasks[i].pc = "send" =>
                calls[i].records = 1 /\ calls[i].sends = 0
          /\ HasRecord(i) <=> calls[i].records = 1
          /\ HasRecord(i) => RecordOf(i).id = tasks[i].seed.id
    /\ \A i, j \in RequestIds :
          (HasRecord(i) /\ HasRecord(j) /\ RecordOf(i).id = RecordOf(j).id)
              => i = j

\* C19 witness: two requests have a record each, one ticket has been sent
\* and the other is waiting to be sent
C19_Witness ==
    \E i, j \in RequestIds :
        /\ i # j
        /\ calls[i].records = 1 /\ calls[i].sends = 1
        /\ calls[j].records = 1 /\ calls[j].sends = 0
        /\ tasks[j].pc = "send"

-----------------------------------------------------------------------------
(* Properties of the accessors (specification SpecAccessors) *)

\* the first parameter of a disposition whose key satisfies Is
FirstParam(params, Is(_)) ==
    params[CHOOSE k \in 1..Len(params) :
               /\ Is(params[k].key)
               /\ \A j \in 1..(k - 1) : ~Is(params[j].key)]

IsLowerFilenameKey(key) == key = Utf8(<<"f", "i", "l", "e", "n", "a", "m", "e">>)

\* every key of the disposition is written in lower case
LowerCaseKeys(disposition) ==
    disposition.kind = "text" =>
        \A k \in 1..Len(disposition.params) :
            disposition.params[k].key
                = [j \in 1..Len(disposition.params[k].key) |->
                      to_ascii_lowercase(disposition.params[k].key[j])]

\* C21: file_name gives the filename parameter of Content-Disposition when
\* the header is there, is text and has a filename parameter, whatever the
\* Content-Type is; else data.<subtype> when the Content-Type is a MIME type,
\* known to the application or not; else nothing. (Keys in lower case; other
\* spellings of the key are the matter of C22.)
C21_FileNameOrder ==
    (queried.fn = "file_name" /\ LowerCaseKeys(queried.disposition)) =>
        queried.result =
            IF /\ queried.disposition.kind = "text"
               /\ \E k \in 1..Len(queried.disposition.params) :
                     IsLowerFilenameKey(queried.disposition.params[k].key)
            THEN Some(FirstParam(queried.disposition.params,
                                 IsLowerFilenameKey).value)
            ELSE IF queried.content_type.subtype.some
                 THEN Some(Utf8(<<"d", "a", "t", "a", ".">>)
                           \o queried.content_type.subtype.val)
                 ELSE None

\* C21 witness: a disposition with a name and a file name, on a response of
\* a type the application does not know
C21_Witness ==
    /\ queried.fn = "file_name"
    /\ queried.disposition.kind = "text"
    /\ Len(queried.disposition.params) = 2
    /\ queried.disposition.params[1].key = Utf8(<<"n", "a", "m", "e">>)
    /\ IsLowerFilenameKey(queried.disposition.params[2].key)
    /\ queried.content_type.subtype = Some(Utf8(<<"j", "p", "e", "g">>))
    /\ queried.result = Some(Utf8(<<"f", "i", "s", "h", ".", "p", "n", "g">>))

\* C22: the filename parameter is found whatever the case of the letters of
\* its key, and its value is the same with and without double quotes.
C22_CaseAndQuoteTolerant ==
    (/\ queried.fn = "file_name"
     /\ queried.disposition.kind = "text"
     /\ \E k \in 1..Len(queried.disposition.params) :
           IsFilenameKey(queried.disposition.params[k].key))
        => queried.result
              = Some(FirstParam(queried.disposition.params,
                                IsFilenameKey).value)

\* the concatenation of a sequence of texts
RECURSIVE Concat(_)
Concat(texts) ==
    IF texts = << >> THEN << >> ELSE Head(texts) \o Concat(Tail(texts))

\* how often pattern occurs in text
CountOf(text, pattern) ==
    Cardinality({k \in 1..(Len(text) - Len(pattern) + 1) :
                    SubSeq(text, k, k + Len(pattern) - 1) = pattern})

\* the record a to_curl call was made on
CurlRecord == RequestWith(queried.method, queried.entries, queried.body)

\* C23: the command to_curl gives is curl -X<METHOD>, then --url '<url>',
\* then one --header '<name>: <value>' for every header value in the order
\* of the headers, then --data '<body>' when the record has a body. There
\* are as many --header flags as header values, and one --data flag or none.
C23_CurlFlags ==
    (queried.fn = "to_curl" /\ queried.result.ok) =>
        LET headers == HeaderMap_iter(CurlRecord.headers)
            command == queried.result.val
        IN  /\ command =
                  Utf8(<<"c", "u", "r", "l", " ", "-", "X">>)
                  \o as_bytes(queried.method.name)
                  \o Utf8(<<" ", "-", "-", "u", "r", "l", " ", "'">>)
                  \o Utf8(<<"h", "t", "t", "p", ":", "/", "/", "l", "o", "c", "a", "l",
                       "h", "o", "s", "t", "/", "u", "r", "l">>)
                  \o Utf8(<<"'">>)
                  \o Concat([k \in 1..Len(headers) |->
                        Utf8(<<" ", "-", "-", "h", "e", "a", "d", "e", "r", " ", "'">>)
                        \o as_bytes(headers[k][1])
                        \o Utf8(<<":", " ">>)
                        \o headers[k][2]
                        \o Utf8(<<"'">>)])
                  \o (IF queried.body.kind = "present"
                      THEN Utf8(<<" ", "-", "-", "d", "a", "t", "a", " ", "'">>)
                           \o queried.body.sample.bytes
                           \o Utf8(<<"'">>)
                      ELSE << >>)
            /\ CountOf(command, Utf8(<<" ", "-", "-", "h", "e", "a", "d", "e", "r", " ", "'">>))
                  = Len(queried.entries)
            /\ CountOf(command, Utf8(<<" ", "-", "-", "d", "a", "t", "a", " ", "'">>))
                  = IF queried.body.kind = "present" THEN 1 ELSE 0
            /\ CountOf(command, Utf8(<<" ", "-", "-", "u", "r", "l", " ", "'">>)) = 1

\* C23 witness: a DELETE with two headers and a body, and the command of it
C23_Witness ==
    /\ queried.fn = "to_curl"
    /\ queried.method = Method_DELETE
    /\ Len(queried.entries) = 2
    /\ queried.entries[1][1] # queried.entries[2][1]
    /\ queried.body.kind = "present"
    /\ queried.body.sample.bytes = <<123, 125>>
    /\ queried.result.ok
    /\ CountOf(queried.result.val, Utf8(<<" ", "-", "-", "d", "a", "t", "a", " ", "'", "{", "}", "'">>)) = 1

\* C24: to_curl fails when a header value or the body is not UTF-8 text and
\* succeeds in every other case; a failure carries no command.
C24_CurlFailsIffNotUtf8 ==
    queried.fn = "to_curl" =>
        /\ queried.result.ok
              <=> /\ \A k \in 1..Len(queried.entries) :
                        queried.entries[k][2].utf8
                  /\ queried.body.kind = "present" => queried.body.sample.utf8
        /\ ~queried.result.ok => "val" \notin DOMAIN queried.result

\* C25: body_str gives no text for a record without body, the bytes as they
\* are when they are UTF-8 text, and an error when they are not; body gives
\* the bytes in every case; text of a response body gives the bytes when they
\* are UTF-8 text and nothing when they are not.
C25_TextOrFailure ==
    /\ queried.fn = "body_str" =>
          /\ queried.bytes = BodyOf(queried.body)
          /\ queried.body.kind = "absent" => queried.result = Ok(None)
          /\ (queried.body.kind = "present" /\ queried.body.sample.utf8)
                => queried.result = Ok(Some(queried.body.sample.bytes))
          /\ (queried.body.kind = "present" /\ ~queried.body.sample.utf8)
                => /\ ~queried.result.ok
                   /\ "val" \notin DOMAIN queried.result
    /\ queried.fn = "text" =>
          queried.result = IF queried.sample.utf8
                           THEN Some(queried.sample.bytes)
                           ELSE None

\* C25 witness: body_str was called on a body that starts as text and ends
\* in bytes that are none
C25_Witness ==
    /\ queried.fn = "body_str"
    /\ queried.body.kind = "present"
    /\ queried.body.sample.bytes = <<65, 255>>
    /\ ~queried.result.ok

\* C26: content_type gives the type the attached parsed body reports, also
\* when the Content-Type header names another type or none; without parsed
\* body the type the header names when the application knows it, and nothing
\* when the header is missing or names no known type.
C26_ContentTypeResolution ==
    queried.fn = "content_type" =>
        queried.result =
            IF queried.parsed.some
            THEN Some(queried.parsed.val.content_type)
            ELSE IF queried.content_type.known
                 THEN Some("Json")
                 ELSE None

\* C26 witness: a parsed JSON body on a response whose header says image/jpeg
C26_Witness ==
    /\ queried.fn = "content_type"
    /\ queried.parsed.some
    /\ queried.content_type.subtype = Some(Utf8(<<"j", "p", "e", "g">>))
    /\ queried.result = Some("Json")

\* C27: the debug text of a response body is Body("<N bytes>") with N the
\* number of bytes; every body of the same length has the same debug text,
\* with and without a parsed body attached.
C27_DebugHidesBytes ==
    queried.fn = "debug" =>
        /\ queried.result
              = Utf8(<<"B", "o", "d", "y", "(", "\"", "<">>)
                \o usize_to_string(Len(queried.sample.bytes))
                \o Utf8(<<" ", "b", "y", "t", "e", "s", ">", "\"", ")">>)
        /\ queried.old = queried.result
        /\ \A other \in BodySamples :
              Len(other.bytes) = Len(queried.sample.bytes) =>
                  /\ ResponseBody_fmt_debug(ResponseBody_new(other.bytes))
                        = queried.result
                  /\ \A content \in ParsedContents :
                        ResponseBody_fmt_debug(
                            [data |-> other.bytes, parsed |-> Some(content)])
                            = queried.result

\* C27 witness: the debug text of a body of ten bytes, where there is another
\* body of ten bytes
C27_Witness ==
    /\ queried.fn = "debug"
    /\ Len(queried.sample.bytes) = 10
    /\ \E other \in BodySamples :
          /\ other.bytes # queried.sample.bytes
          /\ Len(other.bytes) = Len(queried.sample.bytes)
    /\ queried.result = Utf8(<<"B", "o", "d", "y", "(", "\"", "<", "1", "0", " ", "b", "y",
                           "t", "e", "s", ">", "\"", ")">>)

-----------------------------------------------------------------------------
(* Claims on the text window *)

\* C28: after every draw the offsets are within the scroll range of the text
\* and window just drawn, offset_y <= max(0, text_height - window_height) and
\* offset_x <= max(0, text_width - window_width), and an offset that already
\* was within the new range is left as it was.
C28_Step ==
    lastEvent'.kind = "draw" =>
        LET max_y == IF window'.text_height > window'.window_height
                     THEN window'.text_height - window'.window_height ELSE 0
            max_x == IF window'.text_width > window'.window_width
                     THEN window'.text_width - window'.window_width ELSE 0
        IN  /\ window'.offset_y <= max_y
            /\ window'.offset_x <= max_x
            /\ window.offset_y <= max_y => window'.offset_y = window.offset_y
            /\ window.offset_x <= max_x => window'.offset_x = window.offset_x

C28_DrawClampsScroll == [][C28_Step]_vars

\* a draw that had to pull back an offset, after which the window still is
\* scrolled in both directions
C28_Witness ==
    /\ lastEvent.kind = "draw"
    /\ lastEvent.clamped
    /\ window.offset_y = window.text_height - window.window_height
    /\ window.offset_y > 0
    /\ window.offset_x = window.text_width - window.window_width
    /\ window.offset_x > 0

\* C29: scroll events keep the offsets within the range of the last draw;
\* Up and ScrollLeft at zero do nothing, Down and ScrollRight at the last page
\* do nothing, and otherwise each of these events moves its offset by exactly
\* one and leaves the other offset alone.
C29_Step ==
    lastEvent'.kind = "update" =>
        LET max_y == IF window.text_height > window.window_height
                     THEN window.text_height - window.window_height ELSE 0
            max_x == IF window.text_width > window.window_width
                     THEN window.text_width - window.window_width ELSE 0
            action == lastEvent'.action
        IN  /\ window'.offset_y <= max_y
            /\ window'.offset_x <= max_x
            /\ window'.text_height = window.text_height
            /\ window'.text_width = window.text_width
            /\ window'.window_height = window.window_height
            /\ window'.window_width = window.window_width
            /\ action = "Up" =>
                  /\ window'.offset_y =
                        IF window.offset_y = 0 THEN 0 ELSE window.offset_y - 1
                  /\ window'.offset_x = window.offset_x
            /\ action = "Down" =>
                  /\ window'.offset_y =
                        IF window.offset_y >= max_y THEN window.offset_y
                        ELSE window.offset_y + 1
                  /\ window'.offset_x = window.offset_x
            /\ action = "ScrollLeft" =>
                  /\ window'.offset_x =
                        IF window.offset_x = 0 THEN 0 ELSE window.offset_x - 1
                  /\ window'.offset_y = window.offset_y
            /\ action = "ScrollRight" =>
                  /\ window'.offset_x =
                        IF window.offset_x >= max_x THEN window.offset_x
                        ELSE window.offset_x + 1
                  /\ window'.offset_y = window.offset_y

C29_ScrollStaysInBounds == [][C29_Step]_vars

\* a Down event that was held back at the last page of a text longer than
\* the window, with the window scrolled to the right as well
C29_Witness ==
    /\ lastEvent.kind = "update"
    /\ lastEvent.action = "Down"
    /\ window.text_height > window.window_height
    /\ window.window_height > 0
    /\ window.offset_y = window.text_height - window.window_height
    /\ window.offset_y >= 2
    /\ window.offset_x > 0

\* C35: Home sets offset_y to 0 and End sets it to the first line of the last
\* page, max(0, text_height - window_height), from any position; PageUp and
\* PageDown move by window_height lines and stop at 0 and at the last page.
C35_Step ==
    lastEvent'.kind = "update" =>
        LET last_page == IF window.text_height > window.window_height
                         THEN window.text_height - window.window_height ELSE 0
            action == lastEvent'.action
        IN  /\ action = "Home" => window'.offset_y = 0
            /\ action = "End" => window'.offset_y = last_page
            /\ action = "PageUp" =>
                  window'.offset_y =
                      IF window.offset_y > window.window_height
                      THEN window.offset_y - window.window_height ELSE 0
            /\ action = "PageDown" =>
                  window'.offset_y =
                      IF window.offset_y + window.window_height < last_page
                      THEN window.offset_y + window.window_height
                      ELSE last_page

C35_HomeEndPage == [][C35_Step]_vars

\* an End event that took the window to the last page of a text that is
\* longer than the window, two or more lines down
C35_Witness ==
    /\ lastEvent.kind = "update"
    /\ lastEvent.action = "End"
    /\ window.window_height > 0
    /\ window.offset_y = window.text_height - window.window_height
    /\ window.offset_y >= 2

\* C36: vertical actions leave offset_x alone, horizontal actions leave
\* offset_y alone, no event changes the stored sizes, handled actions are
\* consumed, and an event without action or with an action the window does
\* not handle is propagated and changes nothing.
C36_Step ==
    lastEvent'.kind = "update" =>
        LET action == lastEvent'.action
            vertical == {"Up", "ScrollUp", "Down", "ScrollDown", "PageUp",
                         "PageDown", "Home", "End"}
            horizontal == {"ScrollLeft", "ScrollRight"}
        IN  /\ action \in vertical => window'.offset_x = window.offset_x
            /\ action \in horizontal => window'.offset_y = window.offset_y
            /\ window'.text_height = window.text_height
            /\ window'.text_width = window.text_width
            /\ window'.window_height = window.window_height
            /\ window'.window_width = window.window_width
            /\ lastEvent'.update = IF action \in vertical \cup horizontal
                                   THEN "Consumed" ELSE "Propagate"
            /\ lastEvent'.update = "Propagate" => window' = window

C36_EventsChangeWhatTheyName == [][C36_Step]_vars

\* a ScrollLeft event was consumed in a window that is scrolled down and,
\* still, to the right
C36_Witness ==
    /\ lastEvent.kind = "update"
    /\ lastEvent.action = "ScrollLeft"
    /\ lastEvent.update = "Consumed"
    /\ window.offset_y > 0
    /\ window.offset_x > 0

-----------------------------------------------------------------------------
(* Claims on the state cell *)

\* C30: get_or_update(key, init) calls init exactly when the cell is
\* uninitialized or holds another key; afterwards the cell holds key; a call
\* that finds its key returns the value the earlier call with that key made.
C30_Step ==
    lastCall'.fn = "get_or_update" =>
        /\ lastCall'.init_called <=>
              (~cell.some \/ cell.val[1] # lastCall'.key)
        /\ inits' = IF lastCall'.init_called THEN inits + 1 ELSE inits
        /\ cell'.some
        /\ cell'.val[1] = lastCall'.key
        /\ lastCall'.ref = cell'.val[2]
        /\ lastCall'.init_called => lastCall'.ref = NewValue(inits + 1)
        /\ ~lastCall'.init_called =>
              /\ cell' = cell
              /\ lastCall'.ref.init = cell.val[2].init

C30_InitIffStale == [][C30_Step]_vars

\* a call that found its key in a cell that had been re-created before and
\* changed through get_mut since, and returned that value
C30_Witness ==
    /\ lastCall.fn = "get_or_update"
    /\ ~lastCall.init_called
    /\ cell.some
    /\ cell.val[1] = lastCall.key
    /\ lastCall.ref.init = inits
    /\ lastCall.ref.edits > 0
    /\ inits >= 2

\* C37: get_or_update never fails, whenever it is called during a render,
\* also while a reference an earlier get_or_update returned is still held.
C37_NeverFails == lastCall.fn # "panic"

-----------------------------------------------------------------------------
(* Claims on the stateful select *)

\* C31: a select starts at the default item of its type; next() at the last
\* item selects the first, previous() at the first selects the last; the
\* selected index is always below the number of values and selected() yields
\* the item at that index.
C31_InRange ==
    select # NoSelect =>
        /\ SelectedIndex(select) < select.T.variants
        /\ SelectedItem(select) = Ok(SelectedIndex(select))
        /\ selectCalls = << >> =>
              SelectedIndex(select) =
                  IF select.T.module = "view" THEN select.T.default
                  ELSE select.T.DEFAULT_INDEX
        /\ selectCalls # << >> =>
              LET call == selectCalls[Len(selectCalls)]
              IN  /\ (call.fn = "next" /\ call.from = select.T.variants - 1)
                        => SelectedIndex(select) = 0
                  /\ (call.fn = "previous" /\ call.from = 0)
                        => SelectedIndex(select) = select.T.variants - 1

\* previous() at the first of four panes has selected the last
C31_Witness ==
    /\ select # NoSelect
    /\ select.T = PrimaryPane
    /\ selectCalls # << >>
    /\ selectCalls[Len(selectCalls)].fn = "previous"
    /\ selectCalls[Len(selectCalls)].from = 0
    /\ SelectedIndex(select) = 3

\* C32: next() and previous() of the view's select return true exactly when
\* the selected index after the call differs from the one before: never for a
\* type with one value, always for a type with two or more.
C32_ChangedReported ==
    (select # NoSelect /\ select.T.module = "view" /\ selectCalls # << >>) =>
        LET call == selectCalls[Len(selectCalls)]
        IN  /\ call.changed \in BOOLEAN
            /\ call.changed <=> (SelectedIndex(select) # call.from)
            /\ select.T.variants = 1 => ~call.changed
            /\ select.T.variants >= 2 => call.changed

\* next() on the only value of a type has reported no change
C32_Witness ==
    /\ select # NoSelect
    /\ select.T.module = "view"
    /\ select.T.variants = 1
    /\ selectCalls # << >>
    /\ selectCalls[Len(selectCalls)].fn = "next"
    /\ selectCalls[Len(selectCalls)].changed = FALSE

\* C38: next() then previous(), and previous() then next(), give back the
\* selection held before; as many next() as the type has values give back
\* the selection held before the first of them.
C38_InverseAndCycle ==
    select # NoSelect =>
        LET n == Len(selectCalls)
            values == select.T.variants
        IN  /\ (n >= 2 /\ selectCalls[n - 1].fn # selectCalls[n].fn)
                  => SelectedIndex(select) = selectCalls[n - 1].from
            /\ (n >= values
                /\ \A k \in (n - values + 1)..n : selectCalls[k].fn = "next")
                  => SelectedIndex(select) = selectCalls[n - values + 1].from

\* four next() in a row on the panes, started away from the default, and
\* the selection is where it was
C38_Witness ==
    /\ select # NoSelect
    /\ select.T = PrimaryPane
    /\ Len(selectCalls) = 4
    /\ \A k \in 1..4 : selectCalls[k].fn = "next"
    /\ selectCalls[1].from = 3
    /\ SelectedIndex(select) = 3

-----------------------------------------------------------------------------
(* Claims on the stateful list *)

\* C33: with_items selects the first item of a list that has items and
\* nothing in an empty list; in a list with items next() and previous() move
\* the selection by one, from the last item to the first and from the first
\* to the last, and select index 0 when nothing was selected. The selection
\* moved is one of the list: none or an index of an item.
C33_Selection ==
    list.made =>
        LET len == Len(list.self.items)
            selected == list.self.state.selected
            in_range(index) ==
                index.some => (index.val >= 0 /\ index.val < len)
        IN  /\ listCall.fn = "with_items" =>
                  selected = IF len > 0 THEN Some(0) ELSE None
            /\ (len > 0 /\ listCall.fn = "next" /\ in_range(listCall.from)) =>
                  /\ ~listCall.aborted
                  /\ selected =
                        IF ~listCall.from.some THEN Some(0)
                        ELSE IF listCall.from.val = len - 1 THEN Some(0)
                        ELSE Some(listCall.from.val + 1)
            /\ (len > 0 /\ listCall.fn = "previous"
                /\ in_range(listCall.from)) =>
                  /\ ~listCall.aborted
                  /\ selected =
                        IF ~listCall.from.some THEN Some(0)
                        ELSE IF listCall.from.val = 0 THEN Some(len - 1)
                        ELSE Some(listCall.from.val - 1)

\* previous() at the first of several items has selected the last
C33_Witness ==
    /\ list.made
    /\ Len(list.self.items) >= 3
    /\ listCall.fn = "previous"
    /\ listCall.from = Some(0)
    /\ list.self.state.selected = Some(Len(list.self.items) - 1)

\* C34: after any next() and previous() on a list of any length, the empty
\* list included, the selected index is none or below items.len(),
\* selected() yields an item exactly when an index is selected, and no call
\* has aborted.
C34_NoAbortInRange ==
    (list.made /\ list.plain) =>
        /\ ~listCall.aborted
        /\ list.self.state.selected.some =>
              /\ list.self.state.selected.val >= 0
              /\ list.self.state.selected.val < Len(list.self.items)
        /\ StatefulList_selected(list.self).some
              <=> list.self.state.selected.some

-----------------------------------------------------------------------------
(* Claims on stored records *)

\* C39: reading a stored record gives a record or an error and nothing in
\* between: a status number outside the status codes, a method text that is
\* no method, a header name or value that is not valid give an error without
\* a record; a record read has the method or status stored and one header
\* value per stored entry; whatever serialization wrote is read successfully,
\* by any deserializer.
C39_AllOrNothing ==
    decoded # NotDecoded =>
        LET data == decoded.data
            headers_valid ==
                \A k \in 1..Len(data.headers) :
                    /\ data.headers[k][1] \in {"accept", "set-cookie", "Accept"}
                    /\ \A b \in 1..Len(data.headers[k][2]) :
                          data.headers[k][2][b] \notin (0..8) \cup (10..31)
                                                          \cup {127}
            fields_valid ==
                IF decoded.kind = "request"
                THEN data.method \in {"GET", "DELETE", "PURGE", "get"}
                ELSE data.status \in 100..999
        IN  /\ decoded.result.ok <=> (fields_valid /\ headers_valid)
            /\ ~decoded.result.ok => decoded.result = Err
            /\ decoded.result.ok =>
                  /\ HeaderMap_len(decoded.result.val.headers)
                        = Len(data.headers)
                  /\ IF decoded.kind = "request"
                     THEN decoded.result.val.method.name = data.method
                     ELSE decoded.result.val.status = data.status
            /\ data \in SerializedRequests \cup SerializedResponses =>
                  decoded.result.ok

====
